---- MODULE Spec2Model ----
(***************************************************************************)
(* Email synchronisation backend: the IMAP Connector (IMAPService), the    *)
(* Categorizer (CategorizationService), the Coordinator (EmailSyncServer), *)
(* the persistence facade (ElasticsearchService), the notification sink    *)
(* (NotificationService) and the category-correction endpoint              *)
(* (EmailController.updateCategory).                                       *)
(*                                                                         *)
(* Texts are TLA+ strings; TLC evaluates Len, SubSeq and \o on them, so     *)
(* substring search, lower-casing and letter counting are computed         *)
(* character by character as the TypeScript does.                          *)
(***************************************************************************)
EXTENDS Integers, Sequences, FiniteSets, TLC

VARIABLES
  \* ---- process / configuration (server.ts, config/index.ts)
  procState,      \* "init" | "running" | "exited" | "crashed"
  hasCreds,       \* [Acct -> BOOLEAN]: accountConfig.user && accountConfig.password
  slackUrl,       \* BOOLEAN: config.slack.webhookUrl is non-empty
  webhookUrl,     \* BOOLEAN: config.webhook.url is non-empty
  imapServices,   \* set of accounts with a Connector in EmailSyncServer.imapServices
  \* ---- IMAPService fields and listener registrations, per account
  connected,      \* [Acct -> BOOLEAN]: IMAPService.connected
  onceReady,      \* [Acct -> BOOLEAN]: the once('ready') listener is still registered
  onceError,      \* [Acct -> BOOLEAN]: the once('error') listener is still registered
  onceEnd,        \* [Acct -> BOOLEAN]: the once('end') listener is still registered
  mailListeners,  \* [Acct -> Nat]: listeners registered by imap.on('mail')
  idleChains,     \* [Acct -> Nat]: self re-arming idleCheck timers
  reconnectTimers,\* [Acct -> Nat]: pending setTimeout(() => this.connect(), 5000)
  \* ---- the imap library object and the remote server, per account
  imapState,      \* [Acct -> "disconnected" | "authenticated"]: imap.state
  sess,           \* [Acct -> Seq(phase)]: underlying sessions opened by imap.connect()
  boxOpen,        \* [Acct -> 0..]: session whose INBOX is selected (0: none)
  openPending,    \* [Acct -> 0..]: session with openInbox's openBox outstanding (0: none)
  backlogPending, \* [Acct -> 0..]: session with the SINCE search outstanding (0: none)
  unseenPending,  \* [Acct -> Nat]: outstanding UNSEEN searches
  kaPending,      \* [Acct -> BOOLEAN]: a keep-alive openBox is outstanding
  mailbox,        \* [Acct -> Seq(sample index)]: remote INBOX, position = UID
  \* ---- history of the Connector, per account
  backlogRuns,    \* [Acct -> Seq(Nat)]: fetchRecentEmails calls per session
  disconnectCalled, \* [Acct -> BOOLEAN]: disconnect() has been called
  \* ---- messages in flight and the store
  msgs,           \* Seq(record): one entry per 'message' event of a fetch
  nextToken,      \* Nat: uuidv4() tokens handed out so far
  store,          \* [id -> stored document]: the Elasticsearch index
  lastHttp,       \* status of the last updateCategory response (0: none yet)
  updates,        \* Nat: updateCategory requests served so far
  \* ---- pure-function harness
  catInput,       \* the Email handed to categorizeEmail
  catResult,      \* its result ("none" before the call)
  searchResponse, \* the last answer of GET /emails (status 0: none yet)
  \* ---- RAGService
  openai,         \* BOOLEAN: RAGService.openai is not null
  contextDocs,    \* Seq([id, text]): RAGService.contextDocs
  retrieved,      \* the last call of retrieveRelevantContext: its text, scores, result
  replyResult,    \* the last call of generateReply: its email and how it settled
  dbFile,         \* the text of context_docs.json under the vector-db path
  addResult       \* how the last call of addContextDocument ended

connVars == <<connected, onceReady, onceError, onceEnd, mailListeners, idleChains,
              reconnectTimers, imapState, sess, boxOpen, openPending, backlogPending,
              unseenPending, kaPending, mailbox, backlogRuns,
              disconnectCalled>>
procVars == <<procState, hasCreds, slackUrl, webhookUrl, imapServices>>
pipeVars == <<msgs, nextToken, store, lastHttp, updates>>
ragVars == <<openai, contextDocs, retrieved, replyResult, dbFile, addResult>>
pureVars == <<catInput, catResult, searchResponse, ragVars>>
vars == <<procVars, connVars, pipeVars, pureVars>>

-----------------------------------------------------------------------------
(* types/index.ts *)

INTERESTED == "Interested"
MEETING_BOOKED == "Meeting Booked"
NOT_INTERESTED == "Not Interested"
SPAM == "Spam"
OUT_OF_OFFICE == "Out of Office"
UNCATEGORIZED == "Uncategorized"

EmailCategory ==
  {INTERESTED, MEETING_BOOKED, NOT_INTERESTED, SPAM, OUT_OF_OFFICE, UNCATEGORIZED}

-----------------------------------------------------------------------------
(* String primitives of the JavaScript runtime *)

\* String.prototype.includes
Includes(text, pat) ==
  \E i \in 1..(Len(text) - Len(pat) + 1) : SubSeq(text, i, i + Len(pat) - 1) = pat

UpperLetters == <<"A","B","C","D","E","F","G","H","I","J","K","L","M",
                  "N","O","P","Q","R","S","T","U","V","W","X","Y","Z">>
LowerLetters == <<"a","b","c","d","e","f","g","h","i","j","k","l","m",
                  "n","o","p","q","r","s","t","u","v","w","x","y","z">>

IsUpper(c) == \E k \in 1..26 : UpperLetters[k] = c

LowerChar(c) ==
  IF IsUpper(c) THEN LowerLetters[CHOOSE k \in 1..26 : UpperLetters[k] = c] ELSE c

RECURSIVE ToLowerCase(_)
\* String.prototype.toLowerCase
ToLowerCase(s) ==
  IF Len(s) = 0 THEN ""
  ELSE LowerChar(SubSeq(s, 1, 1)) \o ToLowerCase(SubSeq(s, 2, Len(s)))

\* (s.match(/[A-Z]/g) || []).length
CountUpper(s) == Cardinality({i \in 1..Len(s) : IsUpper(SubSeq(s, i, i))})

\* patterns.some(pattern => text.includes(pattern))
SomeIncluded(patterns, text) ==
  \E k \in 1..Len(patterns) : Includes(text, patterns[k])

-----------------------------------------------------------------------------
(* categorization.service.ts *)

OutOfOfficePatterns ==
  << "out of office", "out of the office", "ooo", "automatic reply", "auto reply",
     "away from office", "on vacation", "on leave", "currently unavailable",
     "away from my desk", "not in the office", "limited access to email" >>

SpamPatterns ==
  << "congratulations you won", "claim your prize", "click here now",
     "limited time offer", "act now", "free money", "nigerian prince",
     "verify your account", "suspended account", "unusual activity",
     "confirm your password", "you have been selected", "winner", "lottery",
     "casino", "viagra", "pharmacy", "weight loss", "make money fast",
     "work from home", "no credit check", "refinance" >>

\* Faulty variant of the isMeetingBooked patterns: 'scheduled' alone is a pattern.
MeetingPatternsWithScheduled ==
  << "meeting confirmed", "meeting scheduled", "meeting booked",
     "calendar invitation", "event invitation", "has invited you",
     "meeting invite", "scheduled a meeting", "accepted your meeting",
     "meeting accepted", "zoom meeting", "google meet", "teams meeting",
     "calendar event", "appointment confirmed", "scheduled for", "meeting on",
     "see you at", "scheduled" >>

MeetingPatterns ==
  << "meeting confirmed", "meeting scheduled", "meeting booked",
     "calendar invitation", "event invitation", "has invited you",
     "meeting invite", "scheduled a meeting", "accepted your meeting",
     "meeting accepted", "zoom meeting", "google meet", "teams meeting",
     "calendar event", "appointment confirmed", "scheduled for", "meeting on",
     "see you at" >>

InterestedPatterns ==
  << "interested", "would like to know more", "tell me more",
     "sounds interesting", "sounds good", "looks promising", "let's discuss",
     "let's talk", "let's schedule", "can we talk", "would like to discuss",
     "want to learn more", "please share more", "send me more information",
     "more details", "please call", "looking forward", "excited to",
     "great opportunity", "resume shortlisted", "profile shortlisted",
     "congratulations", "move forward", "next steps", "interview",
     "technical round", "when are you available", "available for a call",
     "schedule a call", "let's connect" >>

NotInterestedPatterns ==
  << "not interested", "no longer interested", "not a good fit",
     "not the right fit", "pass on this", "decline", "not at this time",
     "maybe later", "not right now", "thank you for your interest",
     "we have decided", "went with another", "selected another candidate",
     "position has been filled", "no thank", "unsubscribe", "remove me",
     "stop sending", "not hiring", "budget constraints", "unfortunately",
     "regret to inform", "unable to proceed" >>

isOutOfOffice(text) == SomeIncluded(OutOfOfficePatterns, text)

\* Faulty variant of excessiveCaps: no test of the subject length.
ExcessiveCapsAnyLength(subject) ==
  Len(subject) > 0 /\ 2 * CountUpper(subject) > Len(subject)

\* capsPercentage > 0.5 && subject.length > 10; 0/0 is NaN and NaN > 0.5 is false
ExcessiveCaps(subject) ==
  /\ Len(subject) > 0
  /\ 2 * CountUpper(subject) > Len(subject)
  /\ Len(subject) > 10

SuspiciousFrom(from) ==
  \/ Includes(from, "noreply")
  \/ Includes(from, "no-reply")
  \/ ~Includes(from, "@")

isSpam(text, email) ==
  \/ SomeIncluded(SpamPatterns, text)
  \/ (ExcessiveCaps(email.subject) /\ SuspiciousFrom(email.from))

isMeetingBooked(text) == SomeIncluded(MeetingPatterns, text)

isInterested(text) == SomeIncluded(InterestedPatterns, text)

isNotInterested(text) == SomeIncluded(NotInterestedPatterns, text)

\* `${email.subject} ${email.body}`.toLowerCase()
CategorizerText(email) == ToLowerCase(email.subject \o " " \o email.body)

\* Faulty variant of categorizeEmail: the Interested check placed first.
categorizeEmailInterestedFirst(email) ==
  LET text == CategorizerText(email) IN
  IF isInterested(text) THEN INTERESTED
  ELSE IF isOutOfOffice(text) THEN OUT_OF_OFFICE
  ELSE IF isSpam(text, email) THEN SPAM
  ELSE IF isMeetingBooked(text) THEN MEETING_BOOKED
  ELSE IF isNotInterested(text) THEN NOT_INTERESTED
  ELSE UNCATEGORIZED

categorizeEmail(email) ==
  LET text == CategorizerText(email) IN
  IF isOutOfOffice(text) THEN OUT_OF_OFFICE
  ELSE IF isSpam(text, email) THEN SPAM
  ELSE IF isMeetingBooked(text) THEN MEETING_BOOKED
  ELSE IF isInterested(text) THEN INTERESTED
  ELSE IF isNotInterested(text) THEN NOT_INTERESTED
  ELSE UNCATEGORIZED

-----------------------------------------------------------------------------
(* Bounds of the model *)

\* imap.connect() calls that open a session, per Connector
MaxSessions == 2
\* messages the remote server delivers into one INBOX
MaxUid == 1
\* 'message' events (fetched message instances) over all Connectors
MaxMsgs == 2
\* UNSEEN searches outstanding at once on one Connector
MaxUnseen == 1
\* updateCategory requests served
MaxUpdates == 1
\* messages a remote INBOX holds when the program starts
MaxBacklog == 2
\* documents of a small index when the program starts
MaxStored == 3
\* distinct dates of the documents of a small index
MaxDate == 2
\* context documents of a RAGService
MaxDocs == 7

-----------------------------------------------------------------------------
(* Configuration and remote data *)

\* config.imapAccounts[*].id
Acct == {"account1", "account2"}

\* Messages the remote server may hold: one the Categorizer labels Interested,
\* one it labels Out of Office.
MailSamples ==
  << [subject |-> "Interview scheduled - Backend Engineer",
      body    |-> "Let's discuss next steps, are you available for a call?",
      from    |-> "hr@corp.example",
      date    |-> 1],
     [subject |-> "Automatic reply: your application",
      body    |-> "I am on vacation until Monday.",
      from    |-> "jane@corp.example",
      date    |-> 2] >>

NoEmail == [subject |-> "", body |-> "", from |-> ""]

\* No GET /emails request has been answered yet.
NoResponse == [status |-> 0, emails |-> <<>>, fromParam |-> 0, sizeParam |-> 0]

Live(phase) == phase \in {"connecting", "ready", "ending"}

Latest(a) == Len(sess[a])

\* The session s of a still answers requests: it is authenticated and open.
Answers(a, s) == s # 0 /\ s <= Len(sess[a]) /\ sess[a][s] = "ready"

-----------------------------------------------------------------------------
(* rag.service.ts *)

\* config.productContext when PRODUCT_CONTEXT is not set
ProductContext == "I am applying for a job position."

\* initializeVectorDB: the context documents every RAGService starts with
InitialContextDocs ==
  << [id |-> "product_context", text |-> ProductContext],
     [id |-> "meeting_link",
      text |-> "For scheduling meetings, use this link: https://cal.com/example"],
     [id |-> "availability",
      text |-> "I am available for meetings and discussions. Please feel free to book a time slot that works for you."],
     [id |-> "interest_response",
      text |-> "Thank you for your interest! I would be happy to discuss this opportunity further."],
     [id |-> "interview_ready",
      text |-> "Thank you for considering my profile. I am available for interviews and technical discussions."] >>

\* retrieveRelevantContext has not been called yet.
NoRetrieval == [text |-> "", docs |-> <<>>, scores |-> <<>>, context |-> <<>>]

\* generateReply has not been called yet.
NoReply == [email |-> NoEmail, completion |-> "none", outcome |-> "none", text |-> ""]

\* One character inside a JSON string literal, as JSON.stringify quotes it.
JsonChar(c) ==
  CASE c = "\"" -> "\\\""
    [] c = "\\" -> "\\\\"
    [] c = "\n" -> "\\n"
    [] c = "\t" -> "\\t"
    [] OTHER -> c

RECURSIVE JsonEscape(_)
JsonEscape(s) ==
  IF Len(s) = 0 THEN ""
  ELSE IF Len(s) = 1 THEN JsonChar(s)
  ELSE LET half == Len(s) \div 2
       IN  JsonEscape(SubSeq(s, 1, half)) \o JsonEscape(SubSeq(s, half + 1, Len(s)))

JsonString(s) == "\"" \o JsonEscape(s) \o "\""

\* One ContextDocument at indentation 2; the undefined embedding is left out.
JsonDoc(doc) ==
  "  {\n    \"id\": " \o JsonString(doc.id) \o ",\n    \"text\": "
    \o JsonString(doc.text) \o "\n  }"

RECURSIVE JsonJoin(_, _)
JsonJoin(docs, n) ==
  IF n = 0 THEN ""
  ELSE IF n = 1 THEN JsonDoc(docs[1])
  ELSE JsonJoin(docs, n - 1) \o ",\n" \o JsonDoc(docs[n])

\* JSON.stringify(this.contextDocs, null, 2)
stringify(docs) ==
  IF Len(docs) = 0 THEN "[]" ELSE "[\n" \o JsonJoin(docs, Len(docs)) \o "\n]"

\* A saveVectorDB that leaves the file as it was.
saveVectorDBSkipped(docs, old, fsOk) == old

\* RAGService.saveVectorDB over the collection docs: writeFileSync replaces the
\* file's text, or throws and leaves the file as it was.
saveVectorDB(docs, old, fsOk) == IF fsOk THEN stringify(docs) ELSE old

\* The file initializeVectorDB leaves behind.
SeededFile == stringify(InitialContextDocs)

\* A RAGService without an OpenAI client that has served no request.
RagIdle ==
  /\ openai = FALSE
  /\ contextDocs = InitialContextDocs
  /\ retrieved = NoRetrieval
  /\ replyResult = NoReply
  /\ dbFile = SeededFile
  /\ addResult = "none"

\* `${email.subject} ${email.body}`
EmailText(email) == email.subject \o " " \o email.body

\* Emails a reply is asked for: one per group of generateWithRules, one that no
\* group matches, one that shares no word with any context document, and two
\* that repeat a word of a context document.
ReplyEmails ==
  { [subject |-> "Interview scheduled - Backend Engineer",
     body |-> "Let's discuss next steps, are you available for a call?",
     from |-> "hr@corp.example"],
    [subject |-> "Congratulations", body |-> "You have been shortlisted",
     from |-> "hr@corp.example"],
    [subject |-> "Open position", body |-> "I would be happy to discuss this",
     from |-> "hr@corp.example"],
    [subject |-> "Your skills", body |-> "Tell me about your technical experience",
     from |-> "hr@corp.example"],
    [subject |-> "Hello", body |-> "", from |-> "jane@corp.example"],
    [subject |-> "Thank you for your time", body |-> "I am here",
     from |-> "jane@corp.example"],
    [subject |-> "for for", body |-> "you", from |-> "jane@corp.example"],
    [subject |-> "I am I am", body |-> "available available",
     from |-> "jane@corp.example"] }

\* Documents added later: a copy of a text that is already there, a new one, and
\* one whose text JSON has to escape.
AddedDocs ==
  { [id |-> "availability_2", text |-> InitialContextDocs[3].text],
    [id |-> "greeting", text |-> "Hello I am here for you"],
    [id |-> "signature", text |-> "Best regards,\n\"Sam\""] }

\* A character the regular expression \s matches.
IsSpace(c) == c \in {" ", "\n", "\t"}

\* s.split(/\s+/): the maximal runs of other characters, in order, with an empty
\* piece in front when s begins with a space (or is empty) and one behind when
\* s ends with a space.
Split(s) ==
  LET n == Len(s)
      space == [i \in 1..n |-> IsSpace(SubSeq(s, i, i))]
      starts == {i \in 1..n : ~space[i] /\ (i = 1 \/ space[i - 1])}
      ends == {i \in 1..n : ~space[i] /\ (i = n \/ space[i + 1])}
      Nth(set, k) == CHOOSE i \in set : Cardinality({j \in set : j < i}) = k - 1
      runs == [k \in 1..Cardinality(starts) |-> SubSeq(s, Nth(starts, k), Nth(ends, k))]
      front == IF n = 0 \/ space[1] THEN <<"">> ELSE <<>>
      back == IF n > 0 /\ space[n] THEN <<"">> ELSE <<>>
  IN front \o runs \o back

\* The texts retrieval is asked about, with their words worked out once.
KnownTexts ==
  {EmailText(email) : email \in ReplyEmails}
    \cup {InitialContextDocs[k].text : k \in 1..Len(InitialContextDocs)}
    \cup {doc.text : doc \in AddedDocs}

KnownWords == [text \in KnownTexts |-> Split(ToLowerCase(text))]

\* text.toLowerCase().split(/\s+/)
Words(text) ==
  IF text \in KnownTexts THEN KnownWords[text] ELSE Split(ToLowerCase(text))

\* words2.includes(word)
IncludesWord(words, word) == \E k \in 1..Len(words) : words[k] = word

Max(a, b) == IF a >= b THEN a ELSE b

\* Faulty variant of calculateSimilarity: the count is divided by the smaller of
\* the two lengths.
calculateSimilarityOverShorter(text1, text2) ==
  LET words1 == Words(text1)
      words2 == Words(text2)
      InWords2(word) == IncludesWord(words2, word)
      common == SelectSeq(words1, InWords2)
  IN [num |-> Len(common),
      den |-> IF Len(words1) <= Len(words2) THEN Len(words1) ELSE Len(words2)]

\* calculateSimilarity: common.length / Math.max(words1.length, words2.length),
\* kept as the fraction num / den
calculateSimilarity(text1, text2) ==
  LET words1 == Words(text1)
      words2 == Words(text2)
      InWords2(word) == IncludesWord(words2, word)
      common == SelectSeq(words1, InWords2)
  IN [num |-> Len(common), den |-> Max(Len(words1), Len(words2))]

\* The fraction s is greater than the fraction t.
Greater(s, t) == s.num * t.den > t.num * s.den

\* Faulty variant of StablePlace: an item goes in front of the items equal to it.
PlaceBeforeEqual(sorted, item) ==
  Cardinality({k \in 1..Len(sorted) : Greater(sorted[k].score, item.score)}) + 1

\* The place of an item among already sorted items when equal items keep their
\* order: behind every item that is not smaller.
StablePlace(sorted, item) ==
  Cardinality({k \in 1..Len(sorted) : ~Greater(item.score, sorted[k].score)}) + 1

InsertAt(seq, place, item) ==
  SubSeq(seq, 1, place - 1) \o <<item>> \o SubSeq(seq, place, Len(seq))

\* scored.sort((a, b) => b.score - a.score): descending, stable (ECMAScript 2019)
RECURSIVE SortScored(_, _)
SortScored(scored, n) ==
  IF n = 0 THEN <<>>
  ELSE LET sorted == SortScored(scored, n - 1) IN
    InsertAt(sorted, StablePlace(sorted, scored[n]), scored[n])

\* this.contextDocs.map(doc => ({ doc, score: ... }))
Scored(docs, emailText) ==
  [k \in 1..Len(docs) |->
     [doc |-> docs[k], score |-> calculateSimilarity(emailText, docs[k].text)]]

Min(a, b) == IF a <= b THEN a ELSE b

\* retrieveRelevantContext: scored.slice(0, 3).map(item => item.doc.text)
retrieveRelevantContext(docs, emailText) ==
  LET scored == Scored(docs, emailText)
      sorted == SortScored(scored, Len(scored))
  IN [k \in 1..Min(3, Len(sorted)) |-> sorted[k].doc.text]

\* The replies of generateWithRules
InterviewReply ==
  "Thank you for reaching out! I'm very interested in discussing this opportunity further. I'm available for an interview at your convenience. Please feel free to book a time slot that works best for you: https://cal.com/example\n\nLooking forward to speaking with you!\n\nBest regards"

ShortlistedReply ==
  "Thank you for considering my profile! I'm excited about this opportunity and would be happy to proceed with the next steps. \n\nI'm available for an interview or discussion at your convenience. You can book a time slot here: https://cal.com/example\n\nLooking forward to connecting!\n\nBest regards"

InterestReply ==
  "Thank you for your interest! I would be delighted to discuss this opportunity in more detail. \n\nI'm available for a call or meeting. Please feel free to schedule a time that works for you: https://cal.com/example\n\nBest regards"

TechnicalReply ==
  "Thank you for your email! I'd be happy to discuss my technical background and experience in detail. \n\nI'm available for a technical discussion at your convenience. You can schedule a meeting here: https://cal.com/example\n\nLooking forward to our conversation!\n\nBest regards"

DefaultReply ==
  "Thank you for reaching out! I appreciate your interest and would be happy to discuss this further.\n\nI'm available for a call or meeting. Please schedule a time that works for you: https://cal.com/example\n\nBest regards"

\* generateWithRules: the first group with a word in the lower-cased text
generateWithRules(email) ==
  LET emailText == ToLowerCase(EmailText(email)) IN
  IF SomeIncluded(<<"interview", "schedule", "available", "when are you free">>, emailText)
    THEN InterviewReply
  ELSE IF SomeIncluded(<<"shortlisted", "selected", "congratulations">>, emailText)
    THEN ShortlistedReply
  ELSE IF SomeIncluded(<<"interested", "opportunity", "position">>, emailText)
    THEN InterestReply
  ELSE IF SomeIncluded(<<"technical", "skills", "experience">>, emailText)
    THEN TechnicalReply
  ELSE DefaultReply

\* What openai.chat.completions.create may do: reject, resolve without a choice,
\* resolve with content null or '', resolve with a text.
Completions == {"throws", "noChoices", "nullContent", "emptyContent", "text"}

\* The content of a completion that carries a text.
CompletionText == "Thanks for your message, let us talk on Monday."

\* The catch block of generateWithOpenAI that lets the error escape.
AfterCompletionErrorRethrows(email) == [outcome |-> "raised", text |-> ""]

\* The catch block of generateWithOpenAI: log, then generateWithRules
AfterCompletionError(email) == [outcome |-> "returned", text |-> generateWithRules(email)]

\* generateWithOpenAI: completion.choices[0].message.content || generateWithRules
generateWithOpenAI(email, completion) ==
  CASE completion = "text" -> [outcome |-> "returned", text |-> CompletionText]
    [] completion \in {"nullContent", "emptyContent"} ->
         [outcome |-> "returned", text |-> generateWithRules(email)]
    [] completion \in {"throws", "noChoices"} -> AfterCompletionError(email)

\* RAGService.generateReply(email): retrieve the context, then generate with the
\* client when there is one and with the rules otherwise.
GenerateReply(email, completion) ==
  /\ retrieved' =
       [text |-> EmailText(email), docs |-> contextDocs,
        scores |-> [k \in 1..Len(contextDocs) |->
                      calculateSimilarity(EmailText(email), contextDocs[k].text)],
        context |-> retrieveRelevantContext(contextDocs, EmailText(email))]
  /\ replyResult' =
       IF openai
         THEN [email |-> email, completion |-> completion] @@
              generateWithOpenAI(email, completion)
         ELSE [email |-> email, completion |-> "none", outcome |-> "returned",
               text |-> generateWithRules(email)]
  /\ UNCHANGED <<openai, contextDocs, dbFile, addResult>>
  /\ UNCHANGED <<catInput, catResult, searchResponse, procVars, connVars, pipeVars>>

\* RAGService.addContextDocument(id, text)
\* The push comes before the save, so a write that throws leaves the pushed
\* document in memory and the exception with the caller.
AddContextDocument(id, text, fsOk) ==
  /\ Len(contextDocs) < MaxDocs
  /\ contextDocs' = Append(contextDocs, [id |-> id, text |-> text])
  /\ dbFile' = saveVectorDB(contextDocs', dbFile, fsOk)
  /\ addResult' = IF fsOk THEN "returned" ELSE "threw"
  /\ UNCHANGED <<openai, retrieved, replyResult>>
  /\ UNCHANGED <<catInput, catResult, searchResponse, procVars, connVars, pipeVars>>

-----------------------------------------------------------------------------
(* server.ts: start, setupIMAPConnections, stop *)

\* IMAPService.connect: the guard `!this.connected`
ConnectOpens(a) == ~connected[a]

\* imap.connect() of the library: a new socket; the request queue, the selected
\* box and the state of the Connection object are reset.
ImapConnect(a) ==
  /\ Len(sess[a]) < MaxSessions
  /\ sess' = [sess EXCEPT ![a] = Append(@, "connecting")]
  /\ backlogRuns' = [backlogRuns EXCEPT ![a] = Append(@, 0)]
  /\ imapState' = [imapState EXCEPT ![a] = "disconnected"]
  /\ boxOpen' = [boxOpen EXCEPT ![a] = 0]
  /\ openPending' = [openPending EXCEPT ![a] = 0]
  /\ backlogPending' = [backlogPending EXCEPT ![a] = 0]
  /\ unseenPending' = [unseenPending EXCEPT ![a] = 0]
  /\ kaPending' = [kaPending EXCEPT ![a] = FALSE]

imapVars == <<sess, backlogRuns, imapState, boxOpen, openPending, backlogPending,
              unseenPending, kaPending>>

\* IMAPService.connect()
connect(a) ==
  IF ConnectOpens(a) THEN ImapConnect(a) ELSE UNCHANGED imapVars

\* Credential configurations: every subset of the accounts may carry a user and a
\* password; the Connector specifications run one configured account at a time
\* (Connectors of different accounts share no field, listener or timer).
AllConfigs == [Acct -> BOOLEAN]
OneAccountConfigs == {f \in AllConfigs : Cardinality({a \in Acct : f[a]}) <= 1}

\* The state after `new EmailSyncServer()`, before start(), with the remote
\* INBOXes and the Elasticsearch index holding one of the given contents.
ConstructedWith(configs, boxes, stores) ==
  /\ procState = "init"
  /\ hasCreds \in configs
  /\ slackUrl \in BOOLEAN
  /\ webhookUrl \in BOOLEAN
  /\ imapServices = {}
  /\ connected = [a \in Acct |-> FALSE]
  /\ onceReady = [a \in Acct |-> FALSE]
  /\ onceError = [a \in Acct |-> FALSE]
  /\ onceEnd = [a \in Acct |-> FALSE]
  /\ mailListeners = [a \in Acct |-> 0]
  /\ idleChains = [a \in Acct |-> 0]
  /\ reconnectTimers = [a \in Acct |-> 0]
  /\ imapState = [a \in Acct |-> "disconnected"]
  /\ sess = [a \in Acct |-> <<>>]
  /\ boxOpen = [a \in Acct |-> 0]
  /\ openPending = [a \in Acct |-> 0]
  /\ backlogPending = [a \in Acct |-> 0]
  /\ unseenPending = [a \in Acct |-> 0]
  /\ kaPending = [a \in Acct |-> FALSE]
  /\ mailbox \in boxes
  /\ backlogRuns = [a \in Acct |-> <<>>]
  /\ disconnectCalled = [a \in Acct |-> FALSE]
  /\ msgs = <<>>
  /\ nextToken = 0
  /\ store \in stores
  /\ lastHttp = 0
  /\ updates = 0

\* The same with an empty index.
ConstructedOver(configs, boxes) == ConstructedWith(configs, boxes, {<<>>})

\* The state after `new EmailSyncServer()` with empty remote INBOXes.
Constructed(configs) == ConstructedOver(configs, {[a \in Acct |-> <<>>]})

Init ==
  /\ Constructed(OneAccountConfigs)
  /\ catInput = NoEmail
  /\ catResult = "none"
  /\ searchResponse = NoResponse
  /\ RagIdle

\* start(): elasticsearchService.initialize() throws; process.exit(1)
StartFail ==
  /\ procState = "init"
  /\ procState' = "exited"
  /\ UNCHANGED <<hasCreds, slackUrl, webhookUrl, imapServices>>
  /\ UNCHANGED <<connVars, pipeVars, pureVars>>

\* Faulty variant of SetUp: an IMAPService for every configured account.
SetUpEvery(a) == TRUE

\* setupIMAPConnections: the accounts the forEach callback does not return early
\* for, those with a user and a password.
SetUp(a) == hasCreds[a]

\* start(): initialize() succeeded; setupIMAPConnections() creates, registers and
\* connects one IMAPService per account that has a user and a password.
StartOk ==
  /\ procState = "init"
  /\ procState' = "running"
  /\ imapServices' = {a \in Acct : SetUp(a)}
  /\ onceReady' = [a \in Acct |-> SetUp(a)]
  /\ onceError' = [a \in Acct |-> SetUp(a)]
  /\ onceEnd' = [a \in Acct |-> SetUp(a)]
  /\ sess' = [a \in Acct |-> IF SetUp(a) THEN <<"connecting">> ELSE <<>>]
  /\ backlogRuns' = [a \in Acct |-> IF SetUp(a) THEN <<0>> ELSE <<>>]
  /\ UNCHANGED <<hasCreds, slackUrl, webhookUrl>>
  /\ UNCHANGED <<connected, mailListeners, idleChains, reconnectTimers, imapState,
                 boxOpen, openPending, backlogPending, unseenPending, kaPending,
                 mailbox, disconnectCalled>>
  /\ UNCHANGED <<pipeVars, pureVars>>

\* IMAPService.disconnect(): imap.end() sends LOGOUT on the current session.
disconnect(a) ==
  /\ disconnectCalled' = [disconnectCalled EXCEPT ![a] = TRUE]
  /\ IF connected[a] /\ Latest(a) > 0 /\ sess[a][Latest(a)] = "ready"
       THEN sess' = [sess EXCEPT ![a][Latest(a)] = "ending"]
       ELSE UNCHANGED sess

\* The messages in flight after disconnect(): it only calls imap.end(), no parse,
\* write or post is touched.
AfterDisconnect(ms, a) == ms

\* A client of the Connector calls its public disconnect().
Disconnect(a) ==
  /\ procState = "running"
  /\ a \in imapServices
  /\ ~disconnectCalled[a]
  /\ disconnect(a)
  /\ msgs' = AfterDisconnect(msgs, a)
  /\ UNCHANGED procVars
  /\ UNCHANGED <<connected, onceReady, onceError, onceEnd, mailListeners, idleChains,
                 reconnectTimers, imapState, boxOpen, openPending, backlogPending,
                 unseenPending, kaPending, mailbox, backlogRuns>>
  /\ UNCHANGED <<nextToken, store, lastHttp, updates, pureVars>>

\* The state of a process that has ended: its objects, listeners, timers and
\* in-flight callbacks no longer exist; the remote mailboxes and the index remain.
ProcessGone ==
  /\ imapServices' = {}
  /\ connected' = [a \in Acct |-> FALSE]
  /\ onceReady' = [a \in Acct |-> FALSE]
  /\ onceError' = [a \in Acct |-> FALSE]
  /\ onceEnd' = [a \in Acct |-> FALSE]
  /\ mailListeners' = [a \in Acct |-> 0]
  /\ idleChains' = [a \in Acct |-> 0]
  /\ reconnectTimers' = [a \in Acct |-> 0]
  /\ imapState' = [a \in Acct |-> "disconnected"]
  /\ sess' = [a \in Acct |-> <<>>]
  /\ boxOpen' = [a \in Acct |-> 0]
  /\ openPending' = [a \in Acct |-> 0]
  /\ backlogPending' = [a \in Acct |-> 0]
  /\ unseenPending' = [a \in Acct |-> 0]
  /\ kaPending' = [a \in Acct |-> FALSE]
  /\ backlogRuns' = [a \in Acct |-> <<>>]
  /\ disconnectCalled' = [a \in Acct |-> FALSE]
  /\ msgs' = <<>>
  /\ nextToken' = 0
  /\ lastHttp' = 0
  /\ updates' = 0
  /\ UNCHANGED <<hasCreds, slackUrl, webhookUrl, mailbox, store, pureVars>>

\* SIGTERM / SIGINT: await server.stop() calls disconnect() on every Connector,
\* then process.exit(0).
Shutdown ==
  /\ procState = "running"
  /\ procState' = "exited"
  /\ ProcessGone

\* A client of the Connector calls its public connect().
Connect(a) ==
  /\ procState = "running"
  /\ a \in imapServices
  /\ connect(a)
  /\ UNCHANGED procVars
  /\ UNCHANGED <<connected, onceReady, onceError, onceEnd, mailListeners, idleChains,
                 reconnectTimers, mailbox, disconnectCalled>>
  /\ UNCHANGED <<pipeVars, pureVars>>

\* setTimeout(() => this.connect(), 5000) fires.
ReconnectTimer(a) ==
  /\ procState = "running"
  /\ reconnectTimers[a] > 0
  /\ reconnectTimers' = [reconnectTimers EXCEPT ![a] = @ - 1]
  /\ connect(a)
  /\ UNCHANGED procVars
  /\ UNCHANGED <<connected, onceReady, onceError, onceEnd, mailListeners, idleChains,
                 mailbox, disconnectCalled>>
  /\ UNCHANGED <<pipeVars, pureVars>>

-----------------------------------------------------------------------------
(* imap.service.ts: setupEventHandlers *)

\* Reconnections the 'error' listener schedules (it only clears the flag).
ErrorSchedules(a) == 0

\* Faulty variant: imap.on('ready', ...), the listener stays registered.
ReadyListenerStays(a) == TRUE

\* imap.once('ready', ...): the listener is removed when it runs.
ReadyListenerAfterRun(a) == FALSE

\* The session s of a completes login: the library sets state 'authenticated' and
\* emits 'ready'. The once-listener, if still registered, sets connected and calls
\* openInbox(), which issues openBox('INBOX').
Ready(a, s) ==
  /\ procState = "running"
  /\ s \in 1..Len(sess[a])
  /\ sess[a][s] = "connecting"
  /\ sess' = [sess EXCEPT ![a][s] = "ready"]
  /\ imapState' = [imapState EXCEPT ![a] = "authenticated"]
  /\ IF onceReady[a]
       THEN /\ onceReady' = [onceReady EXCEPT ![a] = ReadyListenerAfterRun(a)]
            /\ connected' = [connected EXCEPT ![a] = TRUE]
            /\ openPending' = [openPending EXCEPT ![a] = s]
       ELSE UNCHANGED <<onceReady, connected, openPending>>
  /\ UNCHANGED procVars
  /\ UNCHANGED <<onceError, onceEnd, mailListeners, idleChains, reconnectTimers,
                 boxOpen, backlogPending, unseenPending, kaPending, mailbox,
                 backlogRuns, disconnectCalled>>
  /\ UNCHANGED <<pipeVars, pureVars>>

\* The library emits 'error' for the session s of a (socket error, timeout, login
\* failure) and the once-listener is still registered: it clears connected.
Error(a, s) ==
  /\ procState = "running"
  /\ s \in 1..Len(sess[a])
  /\ Live(sess[a][s])
  /\ onceError[a]
  /\ sess' = [sess EXCEPT ![a][s] = "errored"]
  /\ onceError' = [onceError EXCEPT ![a] = FALSE]
  /\ connected' = [connected EXCEPT ![a] = FALSE]
  /\ reconnectTimers' = [reconnectTimers EXCEPT ![a] = @ + ErrorSchedules(a)]
  /\ UNCHANGED procVars
  /\ UNCHANGED <<onceReady, onceEnd, mailListeners, idleChains, imapState, boxOpen,
                 openPending, backlogPending, unseenPending, kaPending, mailbox,
                 backlogRuns, disconnectCalled>>
  /\ UNCHANGED <<pipeVars, pureVars>>

\* The library emits 'error' and no 'error' listener is registered any more:
\* EventEmitter throws the error, nothing catches it, the process dies.
ErrorUnhandled(a, s) ==
  /\ procState = "running"
  /\ s \in 1..Len(sess[a])
  /\ Live(sess[a][s])
  /\ ~onceError[a]
  /\ procState' = "crashed"
  /\ ProcessGone

\* Outstanding requests of session s are never answered once s is gone.
DropRequests(a, s) ==
  /\ boxOpen' = [boxOpen EXCEPT ![a] = IF @ = s THEN 0 ELSE @]
  /\ openPending' = [openPending EXCEPT ![a] = IF @ = s THEN 0 ELSE @]
  /\ backlogPending' = [backlogPending EXCEPT ![a] = IF @ = s THEN 0 ELSE @]
  /\ unseenPending' = [unseenPending EXCEPT ![a] = IF boxOpen[a] = s THEN 0 ELSE @]
  /\ kaPending' = [kaPending EXCEPT ![a] = IF boxOpen[a] = s THEN FALSE ELSE @]

\* Reconnections the 'end' listener schedules: setTimeout(() => this.connect(), 5000)
EndSchedules(a) == 1

\* The socket of session s of a ends (server FIN, also the answer to LOGOUT): the
\* library sets state 'disconnected' and emits 'end'. The once-listener, if still
\* registered, clears connected and arms the reconnect timer.
End(a, s) ==
  /\ procState = "running"
  /\ s \in 1..Len(sess[a])
  /\ sess[a][s] \in {"connecting", "ready", "ending", "errored"}
  /\ sess' = [sess EXCEPT ![a][s] = "closed"]
  /\ imapState' = [imapState EXCEPT ![a] = "disconnected"]
  /\ DropRequests(a, s)
  /\ IF onceEnd[a]
       THEN /\ onceEnd' = [onceEnd EXCEPT ![a] = FALSE]
            /\ connected' = [connected EXCEPT ![a] = FALSE]
            /\ reconnectTimers' = [reconnectTimers EXCEPT ![a] = @ + EndSchedules(a)]
       ELSE UNCHANGED <<onceEnd, connected, reconnectTimers>>
  /\ UNCHANGED procVars
  /\ UNCHANGED <<onceReady, onceError, mailListeners, idleChains, mailbox,
                 backlogRuns, disconnectCalled>>
  /\ UNCHANGED <<pipeVars, pureVars>>

\* The socket of an errored session closes without 'end' (connection reset): the
\* library sets state 'disconnected' and emits 'close', which has no listener.
Close(a, s) ==
  /\ procState = "running"
  /\ s \in 1..Len(sess[a])
  /\ sess[a][s] = "errored"
  /\ sess' = [sess EXCEPT ![a][s] = "closed"]
  /\ imapState' = [imapState EXCEPT ![a] = "disconnected"]
  /\ DropRequests(a, s)
  /\ UNCHANGED procVars
  /\ UNCHANGED <<connected, onceReady, onceError, onceEnd, mailListeners, idleChains,
                 reconnectTimers, mailbox, backlogRuns, disconnectCalled>>
  /\ UNCHANGED <<pipeVars, pureVars>>

-----------------------------------------------------------------------------
(* imap.service.ts: openInbox, fetchRecentEmails, fetchEmails, startIdle *)

\* UIDs the remote server gave to messages it has expunged since: the message at
\* sequence number k of an INBOX has the UID k + UidGap.
UidGap == 10

UidOf(k) == k + UidGap

SeqnoOf(u) == u - UidGap

\* One in-flight message of a fetch, requested by its UID u: its body is handed
\* to simpleParser; `let uid = 0` (attrUid) waits for the 'attributes' event.
NewMsg(a, u) ==
  [acct |-> a, uid |-> u, seqno |-> SeqnoOf(u), attrUid |-> 0, emailUid |-> 0,
   sample |-> mailbox[a][SeqnoOf(u)], stage |-> "parsing",
   id |-> <<>>, category |-> "none", notified |-> FALSE,
   slack |-> "none", webhook |-> "none", slackPosts |-> 0, webhookPosts |-> 0]

\* Result of imap.search: every message of the INBOX is recent and unread.
SearchResults(a) == [k \in 1..Len(mailbox[a]) |-> UidOf(k)]

\* fetchEmails(uids): one 'message' event, and one parse, per UID.
fetchEmails(a, uids) ==
  /\ Len(msgs) + Len(uids) <= MaxMsgs
  /\ msgs' = msgs \o [k \in 1..Len(uids) |-> NewMsg(a, uids[k])]

\* Faulty variant of idleCheck(): the keep-alive openBox is issued unguarded.
IdleCheckUnguarded(a) == TRUE

\* idleCheck(): the guard of the keep-alive openBox
IdleCheckIssues(a) == connected[a] /\ imapState[a] = "authenticated"

\* Faulty variant of the openInbox callback: fetchRecentEmails() is called twice.
BacklogCallsTwice(a) == 2

\* fetchRecentEmails() calls made by the openInbox callback
BacklogCalls(a) == 1

\* The openBox callback of openInbox() without error: fetchRecentEmails() issues
\* the SINCE search, startIdle() registers the 'mail' listener and runs idleCheck(),
\* which issues the first keep-alive openBox and arms its timer.
OpenInboxOk(a) ==
  /\ procState = "running"
  /\ Answers(a, openPending[a])
  /\ LET s == openPending[a] IN
       /\ openPending' = [openPending EXCEPT ![a] = 0]
       /\ boxOpen' = [boxOpen EXCEPT ![a] = s]
       /\ backlogRuns' = [backlogRuns EXCEPT ![a][s] = @ + BacklogCalls(a)]
       /\ backlogPending' = [backlogPending EXCEPT ![a] = s]
  /\ mailListeners' = [mailListeners EXCEPT ![a] = @ + 1]
  /\ kaPending' = [kaPending EXCEPT ![a] = @ \/ IdleCheckIssues(a)]
  /\ idleChains' = [idleChains EXCEPT ![a] = @ + 1]
  /\ UNCHANGED procVars
  /\ UNCHANGED <<connected, onceReady, onceError, onceEnd, reconnectTimers, imapState,
                 sess, unseenPending, mailbox, disconnectCalled>>
  /\ UNCHANGED <<pipeVars, pureVars>>

\* The openBox callback of openInbox() with an error: logged, nothing else.
OpenInboxErr(a) ==
  /\ procState = "running"
  /\ Answers(a, openPending[a])
  /\ openPending' = [openPending EXCEPT ![a] = 0]
  /\ UNCHANGED procVars
  /\ UNCHANGED <<connected, onceReady, onceError, onceEnd, mailListeners, idleChains,
                 reconnectTimers, imapState, sess, boxOpen, backlogPending,
                 unseenPending, kaPending, mailbox, backlogRuns, disconnectCalled>>
  /\ UNCHANGED <<pipeVars, pureVars>>

\* The callback of the SINCE search: an error or an empty result returns, any
\* other result goes to fetchEmails().
BacklogResult(a, err) ==
  /\ procState = "running"
  /\ Answers(a, backlogPending[a])
  /\ backlogPending' = [backlogPending EXCEPT ![a] = 0]
  /\ IF err \/ Len(SearchResults(a)) = 0
       THEN UNCHANGED msgs
       ELSE fetchEmails(a, SearchResults(a))
  /\ UNCHANGED procVars
  /\ UNCHANGED <<connected, onceReady, onceError, onceEnd, mailListeners, idleChains,
                 reconnectTimers, imapState, sess, boxOpen, openPending,
                 unseenPending, kaPending, mailbox, backlogRuns, disconnectCalled>>
  /\ UNCHANGED <<nextToken, store, lastHttp, updates, pureVars>>

\* Faulty variant of the 'mail' listener: it only logs.
MailHandlerOnlyLogs(a) == FALSE

\* The 'mail' listener of startIdle: if (this.imap.state === 'authenticated')
MailHandlerSearches(a) == imapState[a] = "authenticated"

\* A message is delivered to the remote INBOX of a. With the INBOX selected on an
\* open session the server announces it and the library emits 'mail': every
\* registered listener issues an UNSEEN search if imap.state is 'authenticated'.
NewMail(a, sample) ==
  /\ procState = "running"
  /\ a \in imapServices
  /\ Len(mailbox[a]) < MaxUid
  /\ mailbox' = [mailbox EXCEPT ![a] = Append(@, sample)]
  /\ IF Answers(a, boxOpen[a]) /\ MailHandlerSearches(a)
       THEN /\ unseenPending[a] + mailListeners[a] <= MaxUnseen
            /\ unseenPending' = [unseenPending EXCEPT ![a] = @ + mailListeners[a]]
       ELSE UNCHANGED unseenPending
  /\ UNCHANGED procVars
  /\ UNCHANGED <<connected, onceReady, onceError, onceEnd, mailListeners, idleChains,
                 reconnectTimers, imapState, sess, boxOpen, openPending,
                 backlogPending, kaPending, backlogRuns, disconnectCalled>>
  /\ UNCHANGED <<pipeVars, pureVars>>

\* The callback of an UNSEEN search: an error returns, a non-empty result goes to
\* fetchEmails().
UnseenResult(a, err) ==
  /\ procState = "running"
  /\ unseenPending[a] > 0
  /\ Answers(a, boxOpen[a])
  /\ unseenPending' = [unseenPending EXCEPT ![a] = @ - 1]
  /\ IF err \/ Len(SearchResults(a)) = 0
       THEN UNCHANGED msgs
       ELSE fetchEmails(a, SearchResults(a))
  /\ UNCHANGED procVars
  /\ UNCHANGED <<connected, onceReady, onceError, onceEnd, mailListeners, idleChains,
                 reconnectTimers, imapState, sess, boxOpen, openPending,
                 backlogPending, kaPending, mailbox, backlogRuns, disconnectCalled>>
  /\ UNCHANGED <<nextToken, store, lastHttp, updates, pureVars>>

\* The idleCheck timer fires: a keep-alive openBox if the guard holds, and the
\* timer is armed again.
IdleCheck(a) ==
  /\ procState = "running"
  /\ idleChains[a] > 0
  /\ IdleCheckIssues(a)
  /\ ~kaPending[a]
  /\ kaPending' = [kaPending EXCEPT ![a] = TRUE]
  /\ UNCHANGED procVars
  /\ UNCHANGED <<connected, onceReady, onceError, onceEnd, mailListeners, idleChains,
                 reconnectTimers, imapState, sess, boxOpen, openPending,
                 backlogPending, unseenPending, mailbox, backlogRuns,
                 disconnectCalled>>
  /\ UNCHANGED <<pipeVars, pureVars>>

\* The callback of a keep-alive openBox: it does nothing, with or without error.
KeepAliveResult(a) ==
  /\ procState = "running"
  /\ kaPending[a]
  /\ Answers(a, boxOpen[a])
  /\ kaPending' = [kaPending EXCEPT ![a] = FALSE]
  /\ UNCHANGED procVars
  /\ UNCHANGED <<connected, onceReady, onceError, onceEnd, mailListeners, idleChains,
                 reconnectTimers, imapState, sess, boxOpen, openPending,
                 backlogPending, unseenPending, mailbox, backlogRuns,
                 disconnectCalled>>
  /\ UNCHANGED <<pipeVars, pureVars>>

-----------------------------------------------------------------------------
(* elasticsearch.service.ts, notification.service.ts, server.ts: handleNewEmail *)

\* categorizeEmail applied to the messages the remote server may hold
SampleCategory == [k \in 1..Len(MailSamples) |-> categorizeEmail(MailSamples[k])]

\* Faulty variant of the id: the account id and a fixed token.
FixedId(a) == <<a, 1>>

\* `${this.config.id}-${uuidv4()}`: the account id and a token never issued before
FreshId(a) == <<a, nextToken + 1>>

\* Faulty variant of indexEmail: the document is keyed by account and UID.
indexEmailKeyedByUid(st, doc) ==
  LET key == <<doc.accountId, doc.uid>> IN
    [x \in DOMAIN st \cup {key} |-> IF x = key THEN doc ELSE st[x]]

\* client.index({id: email.id, document: email}): upsert keyed by the id
indexEmail(st, doc) ==
  [x \in DOMAIN st \cup {doc.id} |-> IF x = doc.id THEN doc ELSE st[x]]

\* Faulty variant of updateEmailCategory: the document is replaced by the partial
\* document of the request.
updateEmailCategoryReplacing(st, id, category) ==
  [st EXCEPT ![id] = [id |-> id, category |-> category]]

\* client.update({id, body: {doc: {category}}}): partial update of one document
updateEmailCategory(st, id, category) ==
  [st EXCEPT ![id] = [@ EXCEPT !.category = category]]

\* The document written for a message: the Email with its assigned category.
Document(m) ==
  [id |-> m.id, accountId |-> m.acct, folder |-> "INBOX", uid |-> m.emailUid,
   sample |-> m.sample, date |-> MailSamples[m.sample].date,
   category |-> m.category]

\* Faulty variant of notifyInterestedEmail: every category is notified.
NotifiesAnyCategory(category) == TRUE

\* notifyInterestedEmail: the guard `email.category === EmailCategory.INTERESTED`
Notifies(category) == category = INTERESTED

\* sendSlackNotification / triggerWebhook: return at once without a URL, else post
PostStart(url) == IF url THEN "pending" ELSE "skipped"

PostCount(url) == IF url THEN 1 ELSE 0

\* Faulty variant of sendSlackNotification / triggerWebhook: no try/catch around the post.
PostSettledUncaught(ok) == IF ok THEN "sent" ELSE "threw"

\* sendSlackNotification / triggerWebhook: try { await axios.post } catch { log }
PostSettled(ok) == IF ok THEN "sent" ELSE "failed"

\* Posts issued again after a post settled: none, the catch only logs.
Reposts(ok) == 0

\* The record of a handleNewEmail call that has returned: the Email object and
\* the promises of its posts are gone, its outcome and its counters stay.
Returned(m, outcome) ==
  [m EXCEPT !.stage = outcome, !.slack = "none", !.webhook = "none"]

\* uid: uid || seqno
EmailUid(m) == IF m.attrUid # 0 THEN m.attrUid ELSE m.seqno

\* msg.once('attributes', attrs => { uid = attrs.uid }) while the parse of the
\* body is still running; delivered later it sets a variable nobody reads again.
Attributes(i) ==
  /\ procState = "running"
  /\ i \in 1..Len(msgs)
  /\ msgs[i].stage = "parsing"
  /\ msgs[i].attrUid = 0
  /\ msgs' = [msgs EXCEPT ![i].attrUid = msgs[i].uid]
  /\ UNCHANGED <<nextToken, store, lastHttp, updates>>
  /\ UNCHANGED <<procVars, connVars, pureVars>>

\* simpleParser calls back without error: the Email is built with a fresh id and
\* emitted; handleNewEmail categorizes it and calls indexEmail.
ParseOk(i) ==
  /\ procState = "running"
  /\ i \in 1..Len(msgs)
  /\ msgs[i].stage = "parsing"
  /\ LET m == msgs[i] IN
       msgs' = [msgs EXCEPT ![i] = [m EXCEPT !.id = FreshId(m.acct),
                                             !.emailUid = EmailUid(m),
                                             !.category = SampleCategory[m.sample],
                                             !.stage = "indexing"]]
  /\ nextToken' = nextToken + 1
  /\ UNCHANGED <<store, lastHttp, updates>>
  /\ UNCHANGED <<procVars, connVars, pureVars>>

\* Faulty variant of the parser callback: an error also ends the parses of the
\* batch that have not called back yet.
AfterParseFailureAbortsBatch(ms, i) ==
  [k \in 1..Len(ms) |->
     IF k = i \/ (ms[k].acct = ms[i].acct /\ ms[k].stage = "parsing")
       THEN [ms[k] EXCEPT !.stage = "parseFailed"]
       ELSE ms[k]]

\* if (err) { console.error(...); return; } in the callback of one message
AfterParseFailure(ms, i) == [ms EXCEPT ![i].stage = "parseFailed"]

\* simpleParser calls back with an error: logged, no Email is emitted.
ParseErr(i) ==
  /\ procState = "running"
  /\ i \in 1..Len(msgs)
  /\ msgs[i].stage = "parsing"
  /\ msgs' = AfterParseFailure(msgs, i)
  /\ UNCHANGED <<nextToken, store, lastHttp, updates>>
  /\ UNCHANGED <<procVars, connVars, pureVars>>

\* notifyInterestedEmail(email): both senders are called for an Interested
\* message; without any URL both return at once and so does handleNewEmail.
notifyInterestedEmail(m) ==
  IF Notifies(m.category)
    THEN LET n == [m EXCEPT !.notified = TRUE,
                            !.slack = PostStart(slackUrl),
                            !.webhook = PostStart(webhookUrl),
                            !.slackPosts = @ + PostCount(slackUrl),
                            !.webhookPosts = @ + PostCount(webhookUrl)]
         IN IF slackUrl \/ webhookUrl THEN [n EXCEPT !.stage = "notifying"]
                                     ELSE Returned(n, "done")
    ELSE Returned(m, "done")

\* Faulty variant of handleNewEmail: a failed write is followed by the notification.
AfterIndexFailureNotifying(m) == notifyInterestedEmail(m)

\* handleNewEmail after indexEmail threw: the catch logs, nothing else runs.
AfterIndexFailure(m) == Returned(m, "dropped")

\* Faulty variant of handleNewEmail: after indexEmail resolved the handler is
\* back before its write.
AfterIndexSuccessWritesAgain(m) == m

\* handleNewEmail after indexEmail resolved: await notifyInterestedEmail(email)
AfterIndexSuccess(m) == notifyInterestedEmail(m)

\* indexEmail resolves: the document is in the index.
IndexOk(i) ==
  /\ procState = "running"
  /\ i \in 1..Len(msgs)
  /\ msgs[i].stage = "indexing"
  /\ store' = indexEmail(store, Document(msgs[i]))
  /\ msgs' = [msgs EXCEPT ![i] = AfterIndexSuccess(@)]
  /\ UNCHANGED <<nextToken, lastHttp, updates>>
  /\ UNCHANGED <<procVars, connVars, pureVars>>

\* indexEmail throws: nothing is written.
IndexErr(i) ==
  /\ procState = "running"
  /\ i \in 1..Len(msgs)
  /\ msgs[i].stage = "indexing"
  /\ msgs' = [msgs EXCEPT ![i] = AfterIndexFailure(@)]
  /\ UNCHANGED <<nextToken, store, lastHttp, updates>>
  /\ UNCHANGED <<procVars, connVars, pureVars>>

\* Promise.all of the two posts: it rejects if a sender threw, which the catch of
\* handleNewEmail logs; it resolves when both senders have returned.
AfterPost(m) ==
  IF m.slack = "threw" \/ m.webhook = "threw" THEN Returned(m, "notifyThrew")
  ELSE IF m.slack = "pending" \/ m.webhook = "pending" THEN m
  ELSE Returned(m, "done")

\* axios.post to the Slack webhook settles.
SlackDone(i, ok) ==
  /\ procState = "running"
  /\ i \in 1..Len(msgs)
  /\ msgs[i].slack = "pending"
  /\ LET m == msgs[i] IN
       msgs' = [msgs EXCEPT ![i] =
                  IF Reposts(ok) > 0
                    THEN [m EXCEPT !.slackPosts = @ + Reposts(ok)]
                    ELSE AfterPost([m EXCEPT !.slack = PostSettled(ok)])]
  /\ UNCHANGED <<nextToken, store, lastHttp, updates>>
  /\ UNCHANGED <<procVars, connVars, pureVars>>

\* axios.post to the generic webhook settles.
WebhookDone(i, ok) ==
  /\ procState = "running"
  /\ i \in 1..Len(msgs)
  /\ msgs[i].webhook = "pending"
  /\ LET m == msgs[i] IN
       msgs' = [msgs EXCEPT ![i] =
                  IF Reposts(ok) > 0
                    THEN [m EXCEPT !.webhookPosts = @ + Reposts(ok)]
                    ELSE AfterPost([m EXCEPT !.webhook = PostSettled(ok)])]
  /\ UNCHANGED <<nextToken, store, lastHttp, updates>>
  /\ UNCHANGED <<procVars, connVars, pureVars>>

-----------------------------------------------------------------------------
(* email.controller.ts: updateCategory *)

\* Category values a request body carries here: two of the enumeration, a string
\* outside it, and no value at all.
RequestCategories == {INTERESTED, SPAM, "Important", "undefined"}

\* An id no document has.
MissingId == <<"account1", 0>>

\* Faulty variant of updateCategory: no validation of the category.
ValidCategoryAny(category) == TRUE

\* Faulty variant of updateCategory: a missing category passes the validation.
ValidCategoryOrMissing(category) == category \in EmailCategory \cup {"undefined"}

\* Object.values(EmailCategory).includes(category)
ValidCategory(category) == category \in EmailCategory

\* PUT /emails/:id/category: 400 for a value outside the enumeration, before any
\* call to the store; else client.update, which fails for an unknown id or when
\* Elasticsearch fails (500), and otherwise sets the category (200).
UpdateCategory(id, category, esOk) ==
  /\ procState = "running"
  /\ updates < MaxUpdates
  /\ updates' = updates + 1
  /\ IF ~ValidCategory(category)
       THEN lastHttp' = 400 /\ UNCHANGED store
       ELSE IF id \in DOMAIN store /\ esOk
         THEN lastHttp' = 200 /\ store' = updateEmailCategory(store, id, category)
         ELSE lastHttp' = 500 /\ UNCHANGED store
  /\ UNCHANGED <<msgs, nextToken>>
  /\ UNCHANGED <<procVars, connVars, pureVars>>

-----------------------------------------------------------------------------
(* The program, with a client that calls the Connector's public methods *)

Next ==
  \/ StartFail
  \/ StartOk
  \/ Shutdown
  \/ \E a \in Acct : Connect(a)
  \/ \E a \in Acct : Disconnect(a)
  \/ \E a \in Acct : ReconnectTimer(a)
  \/ \E a \in Acct, s \in 1..MaxSessions + 1 : Ready(a, s)
  \/ \E a \in Acct, s \in 1..MaxSessions + 1 : Error(a, s)
  \/ \E a \in Acct, s \in 1..MaxSessions + 1 : ErrorUnhandled(a, s)
  \/ \E a \in Acct, s \in 1..MaxSessions + 1 : End(a, s)
  \/ \E a \in Acct, s \in 1..MaxSessions + 1 : Close(a, s)
  \/ \E a \in Acct : OpenInboxOk(a)
  \/ \E a \in Acct : OpenInboxErr(a)
  \/ \E a \in Acct, err \in BOOLEAN : BacklogResult(a, err)
  \/ \E a \in Acct, k \in 1..Len(MailSamples) : NewMail(a, k)
  \/ \E a \in Acct, err \in BOOLEAN : UnseenResult(a, err)
  \/ \E a \in Acct : IdleCheck(a)
  \/ \E a \in Acct : KeepAliveResult(a)
  \/ \E i \in 1..MaxMsgs + 1 : Attributes(i)
  \/ \E i \in 1..MaxMsgs + 1 : ParseOk(i)
  \/ \E i \in 1..MaxMsgs + 1 : ParseErr(i)
  \/ \E i \in 1..MaxMsgs + 1 : IndexOk(i)
  \/ \E i \in 1..MaxMsgs + 1 : IndexErr(i)
  \/ \E i \in 1..MaxMsgs + 1, ok \in BOOLEAN : SlackDone(i, ok)
  \/ \E i \in 1..MaxMsgs + 1, ok \in BOOLEAN : WebhookDone(i, ok)
  \/ \E id \in DOMAIN store \cup {MissingId}, c \in RequestCategories, esOk \in BOOLEAN : UpdateCategory(id, c, esOk)

Spec == Init /\ [][Next]_vars

-----------------------------------------------------------------------------
(* The Connector alone: the process, the sessions, the timers and the fetches.
   The Coordinator's handlers never write a Connector field, so they are left
   out; fetched messages stay with the parser. *)

NextConn ==
  \/ StartFail
  \/ StartOk
  \/ Shutdown
  \/ \E a \in Acct : ReconnectTimer(a)
  \/ \E a \in Acct, s \in 1..MaxSessions + 1 : Ready(a, s)
  \/ \E a \in Acct, s \in 1..MaxSessions + 1 : Error(a, s)
  \/ \E a \in Acct, s \in 1..MaxSessions + 1 : ErrorUnhandled(a, s)
  \/ \E a \in Acct, s \in 1..MaxSessions + 1 : End(a, s)
  \/ \E a \in Acct, s \in 1..MaxSessions + 1 : Close(a, s)
  \/ \E a \in Acct : OpenInboxOk(a)
  \/ \E a \in Acct : OpenInboxErr(a)
  \/ \E a \in Acct, err \in BOOLEAN : BacklogResult(a, err)
  \/ \E a \in Acct, k \in 1..Len(MailSamples) : NewMail(a, k)
  \/ \E a \in Acct, err \in BOOLEAN : UnseenResult(a, err)
  \/ \E a \in Acct : IdleCheck(a)
  \/ \E a \in Acct : KeepAliveResult(a)

SpecConn == Init /\ [][NextConn]_vars

\* The Connector with a client that calls connect() and disconnect() at any time.
NextClient ==
  \/ NextConn
  \/ \E a \in Acct : Connect(a)
  \/ \E a \in Acct : Disconnect(a)

SpecClient == Init /\ [][NextClient]_vars

-----------------------------------------------------------------------------
(* The Coordinator's pipeline: sessions that open and stay open deliver
   messages of every configured account to handleNewEmail, while
   updateCategory requests arrive. *)

InitPipe ==
  /\ Constructed(OneAccountConfigs)
  /\ catInput = NoEmail
  /\ catResult = "none"
  /\ searchResponse = NoResponse
  /\ RagIdle

NextPipe ==
  \/ StartOk
  \/ \E a \in Acct, s \in 1..MaxSessions + 1 : Ready(a, s)
  \/ \E a \in Acct : OpenInboxOk(a)
  \/ \E a \in Acct, err \in BOOLEAN : BacklogResult(a, err)
  \/ \E a \in Acct, k \in 1..Len(MailSamples) : NewMail(a, k)
  \/ \E a \in Acct, err \in BOOLEAN : UnseenResult(a, err)
  \/ \E i \in 1..MaxMsgs + 1 : Attributes(i)
  \/ \E i \in 1..MaxMsgs + 1 : ParseOk(i)
  \/ \E i \in 1..MaxMsgs + 1 : ParseErr(i)
  \/ \E i \in 1..MaxMsgs + 1 : IndexOk(i)
  \/ \E i \in 1..MaxMsgs + 1 : IndexErr(i)
  \/ \E i \in 1..MaxMsgs + 1, ok \in BOOLEAN : SlackDone(i, ok)
  \/ \E i \in 1..MaxMsgs + 1, ok \in BOOLEAN : WebhookDone(i, ok)
  \/ \E id \in DOMAIN store \cup {MissingId}, c \in RequestCategories, esOk \in BOOLEAN : UpdateCategory(id, c, esOk)

SpecPipe == InitPipe /\ [][NextPipe]_vars

\* The same pipeline with any number of the accounts configured at once.
InitPipeAll ==
  /\ Constructed(AllConfigs)
  /\ catInput = NoEmail
  /\ catResult = "none"
  /\ searchResponse = NoResponse
  /\ RagIdle

SpecPipeAll == InitPipeAll /\ [][NextPipe]_vars

-----------------------------------------------------------------------------
(* The Categorizer as a function: categorizeEmail applied to one Email *)

CatSubjects ==
  { "", "Out of Office", "WINNING OFFER!!", "Interview scheduled - Backend Engineer",
    "Meeting confirmed for Monday", "Re: your proposal", "Auto", "You are a WINNER",
    "URGENT NOW", "REPORT q3 ok" }

CatBodies ==
  { "", "Let's discuss next steps, are you available for a call?",
    "I am not interested, thanks.", "Unfortunately we have decided to decline.",
    "reply: I am on vacation", "Please see the attached report.",
    "See you at 10am, I am interested", "Claim your prize now" }

CatSenders == { "hr@corp.example", "noreply@bulk.example", "mailer-daemon" }

CatInputs ==
  { [subject |-> su, body |-> bo, from |-> fr] :
      su \in CatSubjects, bo \in CatBodies, fr \in CatSenders }

\* One message per phrase of the NotInterested list: the phrase as the subject,
\* an empty body, an ordinary sender.
PhraseInputs ==
  { [subject |-> NotInterestedPatterns[k], body |-> "", from |-> "hr@corp.example"] :
      k \in 1..Len(NotInterestedPatterns) }

InitCat ==
  /\ Constructed({[a \in Acct |-> FALSE]})
  /\ slackUrl = FALSE
  /\ webhookUrl = FALSE
  /\ catInput \in CatInputs \cup PhraseInputs
  /\ catResult = "none"
  /\ searchResponse = NoResponse
  /\ RagIdle

\* const category = this.categorizationService.categorizeEmail(email)
Categorize ==
  /\ catResult = "none"
  /\ catResult' = categorizeEmail(catInput)
  /\ UNCHANGED <<catInput, searchResponse, ragVars, procVars, connVars, pipeVars>>

NextCat == Categorize

SpecCat == InitCat /\ [][NextCat]_vars

-----------------------------------------------------------------------------
(* Properties of the pipeline *)

\* The handler of message m is past its indexEmail call.
PastWrite(m) == m.stage \in {"notifying", "done", "dropped", "notifyThrew"}

\* C1: the notification senders are invoked for a message exactly when its write
\* has succeeded and its assigned category is Interested; no post is ever issued
\* for a message whose write has not succeeded.
C1_NotifiedIffStoredInterested ==
  \A i \in 1..Len(msgs) :
    LET m == msgs[i] IN
      /\ m.notified <=> (m.id \in DOMAIN store /\ m.category = INTERESTED)
      /\ m.slackPosts = (IF m.notified /\ slackUrl THEN 1 ELSE 0)
      /\ m.webhookPosts = (IF m.notified /\ webhookUrl THEN 1 ELSE 0)

\* An Interested message is stored and its Slack post has been issued.
C1_Witness ==
  \E i \in 1..Len(msgs) :
    /\ msgs[i].id \in DOMAIN store
    /\ store[msgs[i].id].category = INTERESTED
    /\ msgs[i].notified
    /\ msgs[i].slackPosts = 1

\* C2 (state part): a message whose write failed is dropped: not in the store,
\* never notified, no post issued; the process keeps running.
C2_DroppedState ==
  \A i \in 1..Len(msgs) :
    LET m == msgs[i] IN
      (PastWrite(m) /\ m.id \notin DOMAIN store) =>
        /\ m.stage = "dropped"
        /\ ~m.notified
        /\ m.slackPosts = 0 /\ m.webhookPosts = 0
        /\ procState = "running"

\* C2 (step part): the step of a failing write changes neither the store nor any
\* other message; a dropped message is never touched again (no retry); and any
\* other message waiting for its own write can still have it succeed.
C2_DroppedStep ==
  \A i \in 1..Len(msgs) :
    /\ (msgs[i].stage = "indexing" /\ msgs'[i].stage = "dropped") =>
         /\ store' = store
         /\ Len(msgs') = Len(msgs)
         /\ \A j \in 1..Len(msgs) : j # i => msgs'[j] = msgs[j]
    /\ msgs[i].stage = "dropped" =>
         /\ Len(msgs') >= Len(msgs)
         /\ msgs'[i] = msgs[i]
         /\ \A j \in 1..Len(msgs) : msgs[j].stage = "indexing" => ENABLED IndexOk(j)

C2_FailedWriteDropsOnlyThatMessage ==
  []C2_DroppedState /\ [][C2_DroppedStep]_vars

\* A message of one account was dropped and a message of the other account,
\* handled after it, is stored and notified.
C2_Witness ==
  \E i, j \in 1..Len(msgs) :
    /\ i < j
    /\ msgs[i].acct # msgs[j].acct
    /\ msgs[i].stage = "dropped"
    /\ msgs[i].id \notin DOMAIN store
    /\ msgs[j].stage = "done"
    /\ msgs[j].id \in DOMAIN store
    /\ msgs[j].notified

\* Some post of message i settles in this step.
PostSettles(i) ==
  \/ msgs[i].slack = "pending" /\ msgs'[i].slack # "pending"
  \/ msgs[i].webhook = "pending" /\ msgs'[i].webhook # "pending"

\* C3 (step part): when a post settles, with or without failure, the store is
\* unchanged, no further post is issued and nothing is thrown.
C3_SettleStep ==
  \A i \in 1..Len(msgs) :
    PostSettles(i) =>
      /\ store' = store
      /\ msgs'[i].slackPosts = msgs[i].slackPosts
      /\ msgs'[i].webhookPosts = msgs[i].webhookPosts
      /\ msgs'[i].stage \in {"notifying", "done"}
      /\ procState' = "running"

\* C3 (state part): no handler ends by a thrown notification error and no sender
\* posts more than once; a notified message stays stored with its category.
C3_SettledState ==
  \A i \in 1..Len(msgs) :
    LET m == msgs[i] IN
      /\ m.stage # "notifyThrew"
      /\ m.slackPosts <= 1 /\ m.webhookPosts <= 1
      /\ m.notified => m.id \in DOMAIN store

C3_NotificationFailureIsContained ==
  []C3_SettledState /\ [][C3_SettleStep]_vars

\* The Slack post of a stored message has failed while its webhook post is
\* still outstanding.
C3_Witness ==
  \E i \in 1..Len(msgs) :
    /\ msgs[i].slack = "failed"
    /\ msgs[i].webhook = "pending"
    /\ msgs[i].slackPosts = 1
    /\ msgs[i].id \in DOMAIN store

-----------------------------------------------------------------------------
(* Properties of the Categorizer *)

\* The category of rule k, in the order OutOfOffice, Spam, MeetingBooked,
\* Interested, NotInterested.
RuleCategory == <<OUT_OF_OFFICE, SPAM, MEETING_BOOKED, INTERESTED, NOT_INTERESTED>>

RuleMatches(k, email) ==
  LET text == CategorizerText(email) IN
    CASE k = 1 -> isOutOfOffice(text)
      [] k = 2 -> isSpam(text, email)
      [] k = 3 -> isMeetingBooked(text)
      [] k = 4 -> isInterested(text)
      [] k = 5 -> isNotInterested(text)

\* C4: the result of categorizeEmail is the category of rule k exactly when rule
\* k matches and no earlier rule matches, Uncategorized exactly when no rule
\* matches; a message matching the OutOfOffice and the Interested rule is
\* classified Out of Office.
C4_FirstMatchingRuleWins ==
  catResult # "none" =>
    LET hit == [k \in 1..5 |-> RuleMatches(k, catInput)] IN
      /\ \A k \in 1..5 :
           (catResult = RuleCategory[k]) <=> (hit[k] /\ \A j \in 1..(k - 1) : ~hit[j])
      /\ (catResult = UNCATEGORIZED) <=> (\A k \in 1..5 : ~hit[k])
      /\ (hit[1] /\ hit[4]) => catResult = OUT_OF_OFFICE

\* A message matching both the OutOfOffice and the Interested rule has been
\* categorized.
C4_Witness ==
  /\ catResult = OUT_OF_OFFICE
  /\ RuleMatches(1, catInput)
  /\ RuleMatches(4, catInput)

-----------------------------------------------------------------------------
(* Properties of the store *)

\* C5: every document of the store has a category, and it is one of the six
\* values of the enumeration, whatever was ingested and whatever category
\* updateCategory was asked to set.
C5_StoredCategoryInEnum ==
  \A id \in DOMAIN store :
    /\ "category" \in DOMAIN store[id]
    /\ store[id].category \in EmailCategory

\* An updateCategory request with a value outside the enumeration was answered
\* while the store held a document.
C5_Witness ==
  /\ store # <<>>
  /\ updates > 0
  /\ lastHttp = 400

-----------------------------------------------------------------------------
(* Properties of the Connector *)

\* The sessions of a that are being opened or are open.
LiveSessions(a) == {s \in 1..Len(sess[a]) : Live(sess[a][s])}

\* C6: connect() is idempotent: a Connector never has more than one session
\* that is being opened or is open.
C6_AtMostOneLiveSession ==
  \A a \in Acct : Cardinality(LiveSessions(a)) <= 1

\* C7: the backlog fetch runs never twice in a session, and once in the session
\* whose inbox is open, whatever keep-alive checks and mail notifications follow.
C7_BacklogOncePerSession ==
  \A a \in Acct :
    /\ \A s \in 1..Len(backlogRuns[a]) : backlogRuns[a][s] <= 1
    /\ boxOpen[a] # 0 => backlogRuns[a][boxOpen[a]] = 1
    /\ \A s \in 1..Len(backlogRuns[a]) :
         backlogRuns[a][s] = 1 => (sess[a][s] # "connecting" /\ openPending[a] # s)

\* In a session with the inbox open the backlog search has been answered, a
\* keep-alive check has been answered and a mail notification has issued its
\* UNSEEN search.
C7_Witness ==
  \E a \in Acct :
    /\ boxOpen[a] # 0
    /\ backlogRuns[a][boxOpen[a]] = 1
    /\ backlogPending[a] = 0
    /\ ~kaPending[a]
    /\ unseenPending[a] > 0

\* C8: a session established by a reconnection is in the full connect flow: the
\* Connector is marked connected while that session is ready.
C8_ReconnectedSessionIsConnected ==
  \A a \in Acct :
    \A s \in 2..Len(sess[a]) : sess[a][s] = "ready" => connected[a]

\* The 'error' event is handled for a session of a in this step.
ErrorHandled(a) ==
  /\ Len(sess'[a]) = Len(sess[a])
  /\ \E s \in 1..Len(sess[a]) : Live(sess[a][s]) /\ sess'[a][s] = "errored"

\* C9: when the Connector handles a fatal error it is marked disconnected and
\* exactly one reconnection is pending.
C9_ErrorSchedulesOneReconnect ==
  [][\A a \in Acct :
       ErrorHandled(a) => (~connected'[a] /\ reconnectTimers'[a] = 1)]_vars

\* Messages fetched for account a so far.
Fetched(ms, a) == Cardinality({i \in 1..Len(ms) : ms[i].acct = a})

\* C10: once disconnect() has been called on a Connector, no reconnection is
\* scheduled, a pending reconnection opens no session, and no fetch delivers
\* further messages.
C10_NothingAfterDisconnect ==
  [][\A a \in Acct :
       (disconnectCalled[a] /\ disconnectCalled'[a]) =>
         /\ reconnectTimers'[a] <= reconnectTimers[a]
         /\ (reconnectTimers'[a] < reconnectTimers[a] => sess'[a] = sess[a])
         /\ Fetched(msgs', a) <= Fetched(msgs, a)]_vars

-----------------------------------------------------------------------------
(* The Connector under fair scheduling: a pending reconnect timer fires, a
   remote server accepts a session that is being opened and answers the
   openBox, the searches and the keep-alive of an open session. *)

FairConn ==
  /\ \A a \in Acct : WF_vars(ReconnectTimer(a))
  /\ \A a \in Acct : \A s \in 1..MaxSessions + 1 : WF_vars(Ready(a, s))
  /\ \A a \in Acct : WF_vars(OpenInboxOk(a))
  /\ \A a \in Acct : WF_vars(BacklogResult(a, FALSE))
  /\ \A a \in Acct : WF_vars(UnseenResult(a, FALSE))
  /\ \A a \in Acct : WF_vars(KeepAliveResult(a))

SpecConnFair == Init /\ [][NextConn]_vars /\ FairConn

\* The Connector of a has lost its session: it has opened one, none is being
\* opened or open, and disconnect() has not been called.
SessionLost(a) ==
  /\ procState = "running"
  /\ a \in imapServices
  /\ ~disconnectCalled[a]
  /\ Len(sess[a]) > 0
  /\ LiveSessions(a) = {}

\* The Connector of a is in watch mode: marked connected, the inbox of an open
\* session selected, the 'mail' listener registered.
Watching(a) ==
  /\ connected[a]
  /\ Answers(a, boxOpen[a])
  /\ mailListeners[a] > 0

\* C11: whenever a Connector has lost its session and disconnect() has not been
\* called, it eventually is in watch mode again, unless the process is shut down.
C11_LossLeadsToWatching ==
  \A a \in Acct : SessionLost(a) ~> (Watching(a) \/ procState = "exited")

-----------------------------------------------------------------------------
(* Properties of the emitted messages and their ids *)

\* Message m has been emitted as an 'email' event (its parse succeeded).
Emitted(m) == m.id # <<>>

\* C12: no remote message (account, UID) is fetched and emitted twice by the
\* fetches of one session.
C12_NoRemoteMessageEmittedTwice ==
  \A i, j \in 1..Len(msgs) :
    (i # j /\ Emitted(msgs[i]) /\ Emitted(msgs[j])) =>
      ~(msgs[i].acct = msgs[j].acct /\ msgs[i].uid = msgs[j].uid)

\* C13 (state part): the id of an emitted message starts with its account id,
\* differs from the id of every other emitted message, is set before the write
\* starts, and is the key and the id field of the stored document.
C13_IdState ==
  /\ \A i \in 1..Len(msgs) :
       LET m == msgs[i] IN
         /\ Emitted(m) <=> m.stage \notin {"parsing", "parseFailed"}
         /\ Emitted(m) => (Len(m.id) = 2 /\ m.id[1] = m.acct)
         /\ \A j \in 1..Len(msgs) : (j # i /\ Emitted(m)) => msgs[j].id # m.id
  /\ \A id \in DOMAIN store :
       /\ store[id].id = id
       /\ \E i \in 1..Len(msgs) : msgs[i].id = id /\ store[id].uid = msgs[i].emailUid

\* C13 (step part): no step changes the id of an emitted message or of a stored
\* document, and no document leaves the store.
C13_IdStep ==
  /\ \A i \in 1..Len(msgs) : Emitted(msgs[i]) => msgs'[i].id = msgs[i].id
  /\ \A id \in DOMAIN store : id \in DOMAIN store' /\ store'[id].id = id

C13_IdAssignedOnceAndUnique == []C13_IdState /\ [][C13_IdStep]_vars

\* Two messages of one account are stored under different ids and an
\* updateCategory request has changed a stored document.
C13_Witness ==
  /\ lastHttp = 200
  /\ \E i, j \in 1..Len(msgs) :
       /\ i # j
       /\ msgs[i].acct = msgs[j].acct
       /\ msgs[i].id \in DOMAIN store
       /\ msgs[j].id \in DOMAIN store
       /\ msgs[i].id # msgs[j].id

\* The handlers whose write has succeeded.
Persisted == {i \in 1..Len(msgs) : msgs[i].stage \in {"notifying", "done", "notifyThrew"}}

\* C14: the store holds one document per successful write, also when the same
\* remote message (account, UID) was fetched more than once: a re-fetch adds a
\* document under a new id instead of replacing the earlier one.
C14_OneRecordPerPersistedNormalization ==
  /\ Cardinality(DOMAIN store) = Cardinality(Persisted)
  /\ \A i \in Persisted : msgs[i].id \in DOMAIN store

\* The same remote message was fetched twice and is stored twice.
C14_Witness ==
  /\ Cardinality(DOMAIN store) = 2
  /\ \E i, j \in Persisted :
       /\ i # j
       /\ msgs[i].acct = msgs[j].acct
       /\ msgs[i].uid = msgs[j].uid

-----------------------------------------------------------------------------
(* One backlog batch: the remote INBOX holds messages when the program
   starts, the backlog search returns them all and fetchEmails hands each of
   them to the parser. *)

RECURSIVE SeqsUpTo(_, _)
SeqsUpTo(S, n) ==
  IF n = 0 THEN {<<>>}
  ELSE LET shorter == SeqsUpTo(S, n - 1) IN
         shorter \cup {Append(q, x) : q \in shorter, x \in S}

\* Contents of the remote INBOXes at start: up to MaxBacklog messages.
Backlogs ==
  {[a \in Acct |-> b] : b \in SeqsUpTo(1..Len(MailSamples), MaxBacklog)}

InitBatch ==
  /\ ConstructedOver(OneAccountConfigs, Backlogs)
  /\ catInput = NoEmail
  /\ catResult = "none"
  /\ searchResponse = NoResponse
  /\ RagIdle

NextBatch ==
  \/ StartOk
  \/ \E a \in Acct, s \in 1..MaxSessions + 1 : Ready(a, s)
  \/ \E a \in Acct : OpenInboxOk(a)
  \/ \E a \in Acct, err \in BOOLEAN : BacklogResult(a, err)
  \/ \E i \in 1..MaxMsgs + 1 : Attributes(i)
  \/ \E i \in 1..MaxMsgs + 1 : ParseOk(i)
  \/ \E i \in 1..MaxMsgs + 1 : ParseErr(i)
  \/ \E i \in 1..MaxMsgs + 1 : IndexOk(i)
  \/ \E i \in 1..MaxMsgs + 1 : IndexErr(i)
  \/ \E i \in 1..MaxMsgs + 1, ok \in BOOLEAN : SlackDone(i, ok)
  \/ \E i \in 1..MaxMsgs + 1, ok \in BOOLEAN : WebhookDone(i, ok)

SpecBatch == InitBatch /\ [][NextBatch]_vars

\* C15 (state part): a message whose parse failed is skipped: never emitted,
\* never notified, and no document of the store is its own.
C15_SkippedState ==
  /\ \A i \in 1..Len(msgs) :
       msgs[i].stage = "parseFailed" =>
         /\ ~Emitted(msgs[i])
         /\ ~msgs[i].notified
         /\ msgs[i].slackPosts = 0 /\ msgs[i].webhookPosts = 0
  /\ \A id \in DOMAIN store :
       \E i \in 1..Len(msgs) : msgs[i].id = id /\ msgs[i].stage # "parseFailed"

\* C15 (step part): the step of a failing parse changes no other message of the
\* batch and not the store; with a failed parse in the batch, every other
\* message can still be emitted and persisted.
C15_SkippedStep ==
  \A i \in 1..Len(msgs) :
    /\ (msgs[i].stage = "parsing" /\ msgs'[i].stage = "parseFailed") =>
         /\ store' = store
         /\ Len(msgs') = Len(msgs)
         /\ \A j \in 1..Len(msgs) : j # i => msgs'[j] = msgs[j]
    /\ msgs[i].stage = "parseFailed" =>
         /\ msgs'[i] = msgs[i]
         /\ \A j \in 1..Len(msgs) :
              /\ msgs[j].stage = "parsing" => ENABLED ParseOk(j)
              /\ msgs[j].stage = "indexing" => ENABLED IndexOk(j)

C15_ParseFailureSkipsOnlyThatMessage ==
  []C15_SkippedState /\ [][C15_SkippedStep]_vars

\* In a batch of two the parse of one message failed and the other message is
\* stored.
C15_Witness ==
  /\ Len(msgs) = 2
  /\ \E i, j \in 1..2 :
       /\ i # j
       /\ msgs[i].stage = "parseFailed"
       /\ msgs[j].stage = "done"
       /\ msgs[j].id \in DOMAIN store
       /\ msgs[i].uid # msgs[j].uid

-----------------------------------------------------------------------------
(* Properties of single Categorizer rules *)

\* Number of positions of t that hold one of the letters A..Z.
UpperCount(t) ==
  Cardinality({i \in 1..Len(t) :
                 \E k \in 1..Len(UpperLetters) : SubSeq(t, i, i) = UpperLetters[k]})

\* The compound heuristic as the claim states it, without division: more than
\* half of the subject's characters are upper-case letters, the subject is
\* longer than 10, and the sender has 'noreply', 'no-reply' or no '@'.
CompoundHeuristic(email) ==
  /\ 2 * UpperCount(email.subject) > Len(email.subject)
  /\ Len(email.subject) > 10
  /\ \/ Includes(email.from, "noreply")
     \/ Includes(email.from, "no-reply")
     \/ ~Includes(email.from, "@")

\* The message matches no OutOfOffice phrase and no spam keyword.
NoPhraseOfRules1And2a(email) ==
  /\ ~SomeIncluded(OutOfOfficePatterns, CategorizerText(email))
  /\ ~SomeIncluded(SpamPatterns, CategorizerText(email))

\* C16: for a message without OutOfOffice phrase and spam keyword the result is
\* Spam exactly when the compound heuristic holds; the message 'WINNING OFFER!!'
\* from noreply@bulk.example is Spam; an empty subject never is.
C16_SpamHeuristic ==
  (catResult # "none" /\ NoPhraseOfRules1And2a(catInput)) =>
    /\ (catResult = SPAM) <=> CompoundHeuristic(catInput)
    /\ (catInput.subject = "WINNING OFFER!!" /\ catInput.from = "noreply@bulk.example")
         => catResult = SPAM
    /\ catInput.subject = "" => catResult # SPAM

\* 'WINNING OFFER!!' from noreply@bulk.example, with no spam keyword, has been
\* classified Spam.
C16_Witness ==
  /\ catResult = SPAM
  /\ catInput.subject = "WINNING OFFER!!"
  /\ catInput.from = "noreply@bulk.example"
  /\ NoPhraseOfRules1And2a(catInput)

\* The example message of the specification.
IsInterviewExample(email) ==
  /\ email.subject = "Interview scheduled - Backend Engineer"
  /\ email.body = "Let's discuss next steps, are you available for a call?"

\* C17 as stated: the example message is classified Meeting Booked.
C17_ExampleIsMeetingBooked ==
  (catResult # "none" /\ IsInterviewExample(catInput)) => catResult = MEETING_BOOKED

\* C17 amended: the example message matches no MeetingBooked pattern (the word
\* 'scheduled' alone is none) and is classified Interested.
C17_ExampleIsInterested ==
  (catResult # "none" /\ IsInterviewExample(catInput)) =>
    /\ ~RuleMatches(3, catInput)
    /\ RuleMatches(4, catInput)
    /\ catResult = INTERESTED

\* The example message from an ordinary sender has been categorized.
C17_Witness ==
  /\ IsInterviewExample(catInput)
  /\ catInput.from = "hr@corp.example"
  /\ catResult = INTERESTED

\* C18: a message that consists of one phrase of the NotInterested list is
\* classified Not Interested.
C18_PhraseIsNotInterested ==
  (catResult # "none" /\ catInput \in PhraseInputs) => catResult = NOT_INTERESTED

-----------------------------------------------------------------------------
(* Properties of updateCategory *)

\* Request values outside the enumeration, the missing value included.
InvalidCategories == RequestCategories \ EmailCategory

\* C19: an updateCategory request with a category outside the enumeration is
\* answered 400 and leaves the store unchanged, whether the id exists or not
\* and whether the store would answer or fail; a request answered 400 never
\* changes the store.
C19_InvalidCategoryRejected ==
  [][/\ \A id \in DOMAIN store \cup {MissingId} :
          \A c \in InvalidCategories : \A esOk \in BOOLEAN :
            UpdateCategory(id, c, esOk) => (lastHttp' = 400 /\ store' = store)
     /\ (updates' # updates /\ lastHttp' = 400) => store' = store]_vars

\* A request was answered 400 while the store held the document of a message,
\* which still has the category the Categorizer gave it.
C19_Witness ==
  /\ lastHttp = 400
  /\ updates = 1
  /\ \E i \in 1..Len(msgs) :
       /\ msgs[i].stage = "done"
       /\ msgs[i].id \in DOMAIN store
       /\ store[msgs[i].id].category = msgs[i].category

-----------------------------------------------------------------------------
(* email.controller.ts, elasticsearch.service.ts: searchEmails without filters *)

\* size: parseInt(req.query.size as string) || 900
DefaultSize == 900

\* from: parseInt(req.query.from as string) || 0
DefaultFrom == 0

\* A query parameter that the request does not carry (parseInt gives NaN).
Absent == -1

\* Values of the `from` and `size` query parameters.
PagingParams == {Absent, 0, 1, 2}

\* parseInt(param) || fallback: NaN and 0 are falsy
OrDefault(param, fallback) == IF param = Absent \/ param = 0 THEN fallback ELSE param

\* config.imapAccounts in the order of the configuration
AcctSeq == <<"account1", "account2">>

\* Every id a document can carry, oldest run first: the tokens of earlier runs
\* are negative, those of this run count from 1.
AllIds ==
  [k \in 1..(2 * (DefaultSize + 2 + MaxMsgs)) |->
     <<AcctSeq[((k - 1) % 2) + 1], ((k - 1) \div 2) - (DefaultSize + 1)>>]

\* The ids of the documents of st as a sequence.
IdSeq(st) ==
  LET InStore(x) == x \in DOMAIN st IN SelectSeq(AllIds, InStore)

\* Documents that share their date with another document: Elasticsearch leaves
\* their relative order open.
TiedIds(st) ==
  LET dates == {st[id].date : id \in DOMAIN st} IN
    IF Cardinality(dates) = Cardinality(DOMAIN st) THEN {}
    ELSE {id \in DOMAIN st : \E other \in DOMAIN st :
            other # id /\ st[other].date = st[id].date}

\* The orders Elasticsearch may give to documents of equal date.
TieBreaks(st) ==
  LET tied == TiedIds(st) IN
    {tb \in [tied -> 1..Cardinality(tied)] :
       \A x, y \in tied : x # y => tb[x] # tb[y]}

\* sort: [{ date: { order: 'desc' } }], ties broken by tb
SortedIds(st, tb) ==
  LET Before(x, y) ==
        \/ st[x].date > st[y].date
        \/ st[x].date = st[y].date /\ tb[x] < tb[y]
  IN SortSeq(IdSeq(st), Before)

\* from / size of the search body: the hits from + 1 .. from + size
Window(hits, from, size) ==
  SubSeq(hits, from + 1, IF from + size < Len(hits) THEN from + size ELSE Len(hits))

\* ElasticsearchService.searchEmails with no filter: match_all, sorted by date
\* descending, paged; hit._source of every hit.
searchEmails(st, from, size, tb) ==
  LET page == Window(SortedIds(st, tb), from, size) IN
    [r \in 1..Len(page) |-> st[page[r]]]

\* GET /emails without filters: 200 with the emails, 500 when Elasticsearch fails.
Search(fromParam, sizeParam, esOk) ==
  /\ procState = "running"
  /\ IF esOk
       THEN \E tb \in TieBreaks(store) :
              searchResponse' =
                [status |-> 200,
                 emails |-> searchEmails(store, OrDefault(fromParam, DefaultFrom),
                                         OrDefault(sizeParam, DefaultSize), tb),
                 fromParam |-> fromParam, sizeParam |-> sizeParam]
       ELSE searchResponse' = [status |-> 500, emails |-> <<>>,
                               fromParam |-> fromParam, sizeParam |-> sizeParam]
  /\ UNCHANGED <<catInput, catResult, ragVars>>
  /\ UNCHANGED <<procVars, connVars, pipeVars>>

\* A document written by an earlier run of the program: its id carries a token
\* of that run.
StoredEarlier(k, d) ==
  [id |-> <<"account1", 0 - k>>, accountId |-> "account1", folder |-> "INBOX",
   uid |-> k, sample |-> 1, date |-> d, category |-> SampleCategory[1]]

\* The index holding the documents 1..Len(dates), document k with date dates[k].
StoreOf(dates) ==
  [id \in {<<"account1", 0 - k>> : k \in 1..Len(dates)} |->
     StoredEarlier(0 - id[2], dates[0 - id[2]])]

\* Small indexes with every combination of dates, and two large ones, of
\* DefaultSize and DefaultSize + 1 documents with increasing dates.
SmallStores == {StoreOf(ds) : ds \in SeqsUpTo(1..MaxDate, MaxStored)}
LargeStores == {StoreOf([k \in 1..n |-> k]) : n \in {DefaultSize, DefaultSize + 1}}

InitSearch ==
  /\ ConstructedWith({[a \in Acct |-> FALSE]}, {[a \in Acct |-> <<>>]},
                     SmallStores \cup LargeStores)
  /\ slackUrl = FALSE
  /\ webhookUrl = FALSE
  /\ catInput = NoEmail
  /\ catResult = "none"
  /\ searchResponse = NoResponse
  /\ RagIdle

NextSearch ==
  \/ StartOk
  \/ \E f \in PagingParams, z \in PagingParams, esOk \in BOOLEAN : Search(f, z, esOk)

SpecSearch == InitSearch /\ [][NextSearch]_vars

\* The dates of a sequence of emails never increase.
NewestFirst(emails) ==
  \A r \in 1..(Len(emails) - 1) : emails[r].date >= emails[r + 1].date

\* C20: the answer to a search without filters and without paging parameters
\* holds every document of the store, each once, newest first.
C20_UnpagedSearchReturnsAll ==
  (/\ searchResponse.status = 200
   /\ searchResponse.fromParam = Absent
   /\ searchResponse.sizeParam = Absent) =>
     /\ Len(searchResponse.emails) = Cardinality(DOMAIN store)
     /\ {searchResponse.emails[r].id : r \in 1..Len(searchResponse.emails)} = DOMAIN store
     /\ NewestFirst(searchResponse.emails)

-----------------------------------------------------------------------------
(* RAGService on its own *)

InitRag ==
  /\ ConstructedWith({[a \in Acct |-> FALSE]}, {[a \in Acct |-> <<>>]}, {<<>>})
  /\ slackUrl = FALSE
  /\ webhookUrl = FALSE
  /\ catInput = NoEmail
  /\ catResult = "none"
  /\ searchResponse = NoResponse
  /\ openai \in BOOLEAN
  /\ contextDocs = InitialContextDocs
  /\ retrieved = NoRetrieval
  /\ replyResult = NoReply
  /\ dbFile = SeededFile
  /\ addResult = "none"

NextRag ==
  \/ \E email \in ReplyEmails, completion \in Completions : GenerateReply(email, completion)
  \/ \E doc \in AddedDocs, fsOk \in BOOLEAN : AddContextDocument(doc.id, doc.text, fsOk)

SpecRag == InitRag /\ [][NextRag]_vars

\* The replies generateWithRules can give.
RuleReplies == {InterviewReply, ShortlistedReply, InterestReply, TechnicalReply, DefaultReply}

\* The completions that carry no text.
FailedCompletions == {"throws", "noChoices", "nullContent", "emptyContent"}

\* C21: every call of generateReply returns, never raises, a non-empty string;
\* without a client, and with a client whose completion throws or is empty or
\* missing, that string is the reply the rules select for the email.
C21_ReplyAlwaysReturned ==
  replyResult.outcome # "none" =>
    /\ replyResult.outcome = "returned"
    /\ replyResult.text # ""
    /\ (~openai \/ replyResult.completion \in FailedCompletions) =>
         /\ replyResult.text = generateWithRules(replyResult.email)
         /\ replyResult.text \in RuleReplies

C21_Witness ==
  /\ openai
  /\ replyResult.completion = "throws"
  /\ replyResult.outcome = "returned"
  /\ replyResult.text = InterviewReply

\* The words of a text as a set.
TokenSet(text) == {Words(text)[i] : i \in 1..Len(Words(text))}

\* C22: each score of the last retrieval is symmetric in its two texts and its
\* numerator is the number of distinct words the two texts share.
C22_ScoreIsSymmetricSetOverlap ==
  \A k \in 1..Len(retrieved.docs) :
    LET a == retrieved.text
        b == retrieved.docs[k].text
    IN /\ retrieved.scores[k] = calculateSimilarity(b, a)
       /\ retrieved.scores[k].num = Cardinality(TokenSet(a) \cap TokenSet(b))

\* Document i of the last retrieval ranks before document j: a greater score,
\* or the same score and an earlier place in the collection.
RanksBefore(i, j) ==
  \/ Greater(retrieved.scores[i], retrieved.scores[j])
  \/ /\ ~Greater(retrieved.scores[j], retrieved.scores[i])
     /\ i < j

\* The result of the last retrieval is the texts of its best documents, at most
\* three, best first, all others ranking behind them.
C23_TopThreeState ==
  retrieved.docs # <<>> =>
    LET n == Len(retrieved.docs)
        m == Min(3, n)
    IN /\ Len(retrieved.context) = m
       /\ \E pick \in [1..m -> 1..n] :
            /\ \A k \in 1..m : retrieved.context[k] = retrieved.docs[pick[k]].text
            /\ \A k \in 1..(m - 1) : RanksBefore(pick[k], pick[k + 1])
            /\ \A j \in (1..n) \ {pick[k] : k \in 1..m} : RanksBefore(pick[m], j)

\* A retrieval leaves the collection as it is, works on the collection as it is,
\* and repeats its result when asked again about the same text and collection.
C23_RetrievalStep ==
  retrieved' # retrieved =>
    /\ contextDocs' = contextDocs
    /\ retrieved'.docs = contextDocs

C23_RepeatStep ==
  (/\ retrieved' # NoRetrieval
   /\ retrieved'.text = retrieved.text
   /\ retrieved'.docs = retrieved.docs) => retrieved'.context = retrieved.context

\* C23: retrieval returns the at most three best documents in descending order
\* of score, equal scores in insertion order, gives the same answer every time,
\* and never changes the stored collection.
C23_TopThreeStableAndPure ==
  /\ []C23_TopThreeState
  /\ [][C23_RetrievalStep /\ C23_RepeatStep]_vars

C23_Witness ==
  /\ retrieved.text = "Hello "
  /\ Len(retrieved.docs) = 6
  /\ \A k \in 1..6 : retrieved.scores[k].num = 0
  /\ retrieved.context = [k \in 1..3 |-> InitialContextDocs[k].text]

-----------------------------------------------------------------------------
(* Accounts with and without credentials, each with its own remote INBOX *)

\* Contents of the remote INBOXes at start: per account, empty or one message.
Inboxes == [Acct -> SeqsUpTo(1..Len(MailSamples), 1)]

InitAccounts ==
  /\ ConstructedOver(AllConfigs, Inboxes)
  /\ catInput = NoEmail
  /\ catResult = "none"
  /\ searchResponse = NoResponse
  /\ RagIdle

SpecAccounts == InitAccounts /\ [][NextBatch]_vars

\* C24: an account without user or password has no Connector, is never
\* connected, is not registered, and no message of it is fetched or stored; once
\* the server runs, every account with credentials is registered and connected.
C24_AccountWithoutCredentialsIsInert ==
  /\ \A a \in Acct :
       ~hasCreds[a] =>
         /\ a \notin imapServices
         /\ sess[a] = <<>>
         /\ ~connected[a]
         /\ ~onceReady[a] /\ ~onceError[a] /\ ~onceEnd[a]
         /\ \A i \in 1..Len(msgs) : msgs[i].acct # a
         /\ \A id \in DOMAIN store : store[id].accountId # a
  /\ procState = "running" =>
       \A a \in Acct : hasCreds[a] => a \in imapServices /\ Len(sess[a]) >= 1

C24_Witness ==
  /\ ~hasCreds["account1"]
  /\ hasCreds["account2"]
  /\ Len(mailbox["account1"]) = 1
  /\ \E id \in DOMAIN store : store[id].accountId = "account2"

WatchSearchIssued(a) == unseenPending'[a] > unseenPending[a]

\* The SINCE search of a's backlog has been answered, so that its fetchEmails
\* call, if it makes one, has been made.
BacklogSubmitted(a) == backlogPending[a] = 0

\* C26: no watch-mode search is issued while the backlog of the session has not
\* yet got to its fetch request.
C26_WatchAfterBacklogSubmitted ==
  [][\A a \in Acct : WatchSearchIssued(a) => BacklogSubmitted(a)]_vars

\* A step in which the library tells the 'mail' listeners of a, in watch mode,
\* about an arrival.
MailNotified(a) ==
  /\ mailbox'[a] # mailbox[a]
  /\ Answers(a, boxOpen[a])
  /\ mailListeners[a] > 0

\* Every notification in watch mode issues a search for the unread messages.
C27_NotificationStep ==
  \A a \in Acct : MailNotified(a) => unseenPending'[a] > unseenPending[a]

\* The answer to such a search hands every unread message to a fetch: each gets
\* its 'message' event.
C27_AnswerStep ==
  \A a \in Acct :
    UnseenResult(a, FALSE) =>
      \A u \in 1..Len(mailbox[a]) :
        \E i \in (Len(msgs) + 1)..Len(msgs') : msgs'[i].acct = a /\ msgs'[i].uid = UidOf(u)

\* C27: in watch mode no mail notification goes without a search for the unread
\* messages, and the answer to the search fetches each of them.
C27_EveryNotificationIsQueried ==
  [][C27_NotificationStep /\ C27_AnswerStep]_vars

\* The backlog and a notification have both been answered, and each has handed
\* the same message to a fetch.
C27_Witness ==
  \E a \in Acct :
    /\ Watching(a)
    /\ Len(mailbox[a]) = 1
    /\ unseenPending[a] = 0
    /\ backlogPending[a] = 0
    /\ Len(msgs) = 2
    /\ \A i \in 1..2 : msgs[i].acct = a /\ msgs[i].uid = UidOf(1)

\* C28: the uid of every emitted Email is the UID the server gave the message
\* (every fetched message has one), however the 'attributes' event and the end
\* of the parse are ordered.
C28_EmittedUidIsRemoteUid ==
  \A i \in 1..Len(msgs) : Emitted(msgs[i]) => msgs[i].emailUid = msgs[i].uid

-----------------------------------------------------------------------------
(* Cancellation: a client calls disconnect() while messages of a backlog batch
   are being parsed, written and notified; the session then ends. *)

NextCancel ==
  \/ NextBatch
  \/ \E a \in Acct : Disconnect(a)
  \/ \E a \in Acct, s \in 1..MaxSessions + 1 : End(a, s)

SpecCancel == InitBatch /\ [][NextCancel]_vars

\* Message i belongs to a Connector on which disconnect() has been called.
Cancelled(i) == disconnectCalled[msgs[i].acct]

\* The step of disconnect() changes no message in flight and not the store.
C29_DisconnectStep ==
  \A a \in Acct :
    (disconnectCalled'[a] /\ ~disconnectCalled[a]) => (msgs' = msgs /\ store' = store)

\* After disconnect() every piece of work in flight can still complete: a
\* running parse can emit its Email, a running write can store it, a pending
\* post can settle.
C29_InFlightState ==
  \A i \in 1..Len(msgs) :
    Cancelled(i) =>
      /\ msgs[i].stage = "parsing" => ENABLED ParseOk(i)
      /\ msgs[i].stage = "indexing" => ENABLED IndexOk(i)
      /\ msgs[i].slack = "pending" => ENABLED SlackDone(i, TRUE)
      /\ msgs[i].webhook = "pending" => ENABLED WebhookDone(i, TRUE)

\* After disconnect() a completed parse emits and categorizes the message, and a
\* completed write stores it and notifies it exactly if it is Interested.
C29_CompletionStep ==
  \A i \in 1..Len(msgs) :
    Cancelled(i) =>
      /\ ParseOk(i) =>
           (Emitted(msgs'[i]) /\ msgs'[i].category = SampleCategory[msgs[i].sample])
      /\ IndexOk(i) =>
           /\ msgs[i].id \in DOMAIN store'
           /\ store'[msgs[i].id].category = msgs[i].category
           /\ msgs'[i].notified <=> msgs[i].category = INTERESTED

\* The part of C29 about work in flight: disconnect() aborts none of it.
C29_InFlightPart ==
  /\ []C29_InFlightState
  /\ [][C29_DisconnectStep /\ C29_CompletionStep]_vars

\* Once disconnect() has been called on a Connector, no fetch of it hands
\* further messages to the parser.
C29_NoNewFetchStep ==
  \A a \in Acct :
    (disconnectCalled[a] /\ disconnectCalled'[a]) => Fetched(msgs', a) <= Fetched(msgs, a)

\* C29: disconnect() aborts nothing in flight (a message whose parse or write
\* had started is still emitted, categorized, stored and, if Interested,
\* notified), and it keeps new fetches from being issued.
C29_DisconnectStopsOnlyNewWork ==
  /\ C29_InFlightPart
  /\ [][C29_NoNewFetchStep]_vars

\* A step changes the stored record id only as a valid category update does:
\* the request is answered 200, the category is one of the enumeration, every
\* other field of the record and every other record stay as they are.
C30_RecordStep(id) ==
  /\ id \in DOMAIN store'
  /\ store'[id] # store[id] =>
       /\ updates' = updates + 1
       /\ lastHttp' = 200
       /\ store'[id].category \in EmailCategory
       /\ store'[id] = [store[id] EXCEPT !.category = store'[id].category]
       /\ DOMAIN store' = DOMAIN store
       /\ \A other \in DOMAIN store \ {id} : store'[other] = store[other]

\* C30: a stored record is never deleted, and it changes only by a valid
\* updateCategory request for its id, which changes its category and nothing
\* else in the store.
C30_OnlyCategoryUpdateChangesRecord ==
  [][\A id \in DOMAIN store : C30_RecordStep(id)]_vars

\* Two messages are stored; a category update was answered 200 and has changed
\* the category of one record, the rest of that record and the other record are
\* as the pipeline wrote them.
C30_Witness ==
  /\ lastHttp = 200
  /\ updates = 1
  /\ Cardinality(DOMAIN store) = 2
  /\ \E i, j \in 1..Len(msgs) :
       /\ i # j
       /\ msgs[i].id \in DOMAIN store /\ msgs[j].id \in DOMAIN store
       /\ store[msgs[i].id].category # msgs[i].category
       /\ store[msgs[i].id] = [Document(msgs[i]) EXCEPT !.category = SPAM]
       /\ store[msgs[j].id] = Document(msgs[j])

-----------------------------------------------------------------------------
(* The context documents and their file *)

\* The five seeded documents are still the first five, in their order.
SeedKept == SubSeq(contextDocs, 1, Len(InitialContextDocs)) = InitialContextDocs

\* Unless the last addContextDocument threw, the file is the collection's JSON.
FileIsCollection == addResult # "threw" => dbFile = stringify(contextDocs)

\* A step that changes the collection appends one document at its end.
AppendStep ==
  contextDocs' # contextDocs =>
    /\ Len(contextDocs') = Len(contextDocs) + 1
    /\ SubSeq(contextDocs', 1, Len(contextDocs)) = contextDocs
    /\ \E doc \in AddedDocs : contextDocs'[Len(contextDocs')] = doc

-----------------------------------------------------------------------------
(* The keep-alive openBox of idleCheck *)

\* A step in which a keep-alive openBox of a is issued.
KeepAliveIssued(a) == ~kaPending[a] /\ kaPending'[a]

\* A step in which the idleCheck timer of a issues a keep-alive openBox: the
\* first one is issued by startIdle, in the callback that answers openInbox.
KeepAliveTimerStep(a) == KeepAliveIssued(a) /\ openPending' = openPending

\* A step in which the keep-alive openBox of a is answered on a session that
\* stays as it is.
KeepAliveAnswerStep(a) == kaPending[a] /\ ~kaPending'[a] /\ sess' = sess

\* C32: the keep-alive openBox is issued only while connected is set and the
\* library's state is 'authenticated', and neither the timer step that issues it
\* nor its answer emits a message, runs the backlog fetch, issues a search,
\* registers a listener or a timer, or changes connected.
C32_KeepAliveIsHarmless ==
  [][\A a \in Acct :
       /\ KeepAliveIssued(a) => connected[a] /\ imapState[a] = "authenticated"
       /\ KeepAliveTimerStep(a) \/ KeepAliveAnswerStep(a) =>
            UNCHANGED <<msgs, backlogRuns, backlogPending, unseenPending,
                        mailListeners, idleChains, reconnectTimers, connected,
                        onceReady, onceError, onceEnd, boxOpen>>]_vars

\* The first keep-alive has been answered and the timer may issue the next one,
\* with the one listener and the one timer chain startIdle registered.
C32_Witness ==
  \E a \in Acct :
    /\ idleChains[a] = 1
    /\ mailListeners[a] = 1
    /\ ~kaPending[a]
    /\ ENABLED IdleCheck(a)
    /\ backlogPending[a] = 0
    /\ Len(msgs) > 0

-----------------------------------------------------------------------------
(* The listeners and timers of startIdle *)

\* C33: whatever connect() calls, errors, ends and reconnections have happened,
\* a Connector has at most one 'mail' listener and at most one idleCheck timer
\* chain, and one delivery to its INBOX issues at most one UNSEEN search.
C33_OneListenerOneChain ==
  /\ [](\A a \in Acct : mailListeners[a] <= 1 /\ idleChains[a] <= 1)
  /\ [][\A a \in Acct :
          mailbox'[a] # mailbox[a] => unseenPending'[a] <= unseenPending[a] + 1]_vars

\* The first session of a Connector was lost before it was ready, the second one
\* opened the INBOX, and a delivery has issued its one UNSEEN search.
C33_Witness ==
  \E a \in Acct :
    /\ Len(sess[a]) = 2
    /\ boxOpen[a] = 2
    /\ mailListeners[a] = 1
    /\ idleChains[a] = 1
    /\ unseenPending[a] = 1
    /\ Len(mailbox[a]) = 1

-----------------------------------------------------------------------------
(* The pipeline's writes and the updateCategory requests *)

\* The pipeline of one configured account whose sessions are lost and opened
\* again while messages are fetched and requests arrive.
NextIngest ==
  \/ NextPipe
  \/ \E a \in Acct, s \in 1..MaxSessions + 1 : End(a, s)
  \/ \E a \in Acct, s \in 1..MaxSessions + 1 : Error(a, s)
  \/ \E a \in Acct : ReconnectTimer(a)

SpecIngest == InitPipe /\ [][NextIngest]_vars

\* The handlers whose indexEmail call is still to be answered.
WriteDue == {i \in 1..Len(msgs) : msgs[i].stage = "indexing"}

\* No write that is still due addresses a stored id, and no two emitted messages
\* share an id, so every id is written at most once.
C34_WriteState ==
  /\ \A i \in WriteDue : msgs[i].id \notin DOMAIN store
  /\ \A i, j \in 1..Len(msgs) :
       (i # j /\ Emitted(msgs[i]) /\ Emitted(msgs[j])) => msgs[i].id # msgs[j].id

\* A write of the pipeline creates the record of its own id and leaves every
\* stored record, with the category a request gave it, as it is; a handler that
\* is past its write never writes again.
C34_WriteStep ==
  /\ \A i \in WriteDue :
       (i <= Len(msgs') /\ msgs'[i].stage # "indexing") =>
         /\ DOMAIN store' \subseteq DOMAIN store \cup {msgs[i].id}
         /\ \A id \in DOMAIN store : store'[id] = store[id]
  /\ \A i \in 1..Len(msgs) :
       (PastWrite(msgs[i]) /\ i <= Len(msgs')) =>
         /\ PastWrite(msgs'[i])
         /\ msgs'[i].id = msgs[i].id
  /\ msgs' # msgs => \A id \in DOMAIN store : store'[id] = store[id]

\* C34: the pipeline writes each Message id at most once: a write is issued once
\* per emitted message under an id no other message has, so no write of the
\* pipeline changes a stored record, and the category an updateCategory request
\* has set stays until another request changes it, whatever the accounts, the
\* re-fetches and the requests do in between.
C34_OneWritePerId == []C34_WriteState /\ [][C34_WriteStep]_vars

\* A request has changed the category of a stored record, and afterwards the
\* same remote message, fetched again, was written under another id: the record
\* still has the category of the request.
C34_Witness ==
  \E i, j \in 1..Len(msgs) :
    /\ i < j
    /\ msgs[i].acct = msgs[j].acct
    /\ msgs[i].uid = msgs[j].uid
    /\ msgs[i].id \in DOMAIN store
    /\ msgs[j].id \in DOMAIN store
    /\ lastHttp = 200
    /\ store[msgs[i].id].category # msgs[i].category
    /\ store[msgs[j].id].category = msgs[j].category

-----------------------------------------------------------------------------
(* The connected flag and the session *)

\* The latest session of a has become ready and has neither errored nor ended
\* (a session that disconnect() is ending has not ended yet).
SessionUp(a) == Latest(a) > 0 /\ sess[a][Latest(a)] \in {"ready", "ending"}

\* C35: connected is set exactly when the Connector's current session has become
\* ready and has not errored or ended since, for the first session and for every
\* session a reconnection opens.
C35_ConnectedIffSessionUp == \A a \in Acct : connected[a] <=> SessionUp(a)

-----------------------------------------------------------------------------
(* The range of calculateSimilarity *)

\* Texts with no word at all, besides the texts of the emails and the documents.
BlankTexts == {"", " ", "\n \t"}

\* The fraction s is a number from 0 to 1 with a denominator that is not zero.
InUnitInterval(s) == s.den >= 1 /\ 0 <= s.num /\ s.num <= s.den

\* calculateSimilarity over every pair of the texts, in both orders.
AllPairsInUnitInterval ==
  \A text1, text2 \in KnownTexts \cup BlankTexts :
    InUnitInterval(calculateSimilarity(text1, text2))

\* C36: calculateSimilarity returns a value from 0 to 1 and never divides by
\* zero: the common words are words of the first text, so there are no more of
\* them than the longer text has words, and split gives at least one piece,
\* also for an empty text. This holds for every score of a retrieval and for
\* every pair of the texts and the blank texts.
C36_ScoreInUnitInterval ==
  /\ \A k \in 1..Len(retrieved.scores) : InUnitInterval(retrieved.scores[k])
  /\ AllPairsInUnitInterval

\* A retrieval for an email with an empty body, whose text ends with an empty
\* word, over seven documents: a score above 0 and a score of 0 among them, and
\* the two ends of the range are met by blank texts.
C36_Witness ==
  /\ Len(retrieved.scores) = 7
  /\ retrieved.text = "Hello "
  /\ \E k \in 1..7 : retrieved.scores[k].num > 0
  /\ \E k \in 1..7 : retrieved.scores[k].num = 0
  /\ calculateSimilarity("", "") = [num |-> 1, den |-> 1]
  /\ calculateSimilarity(" ", "") = [num |-> 2, den |-> 2]
  /\ calculateSimilarity("", retrieved.text) = [num |-> 1, den |-> 2]
  /\ calculateSimilarity("", retrieved.docs[1].text).num = 0

====
